---- MODULE Spec2Model ----
(***************************************************************************)
(* Model of the converter package of manga_to_pdf                          *)
(* (src/internal/converter/converter_test.go, lines 412-1136):             *)
(* ConvertToPDF, processImagesConcurrently, processSingleImage and         *)
(* generatePDFFromProcessedImages, with the goroutines of the coordinator  *)
(* interleaved step by step and the context cancelled at any moment.       *)
(*                                                                         *)
(* Indexes are 0-based as in the Go code; TLA+ sequences are 1-based, so   *)
(* the Go slot results[k] is results[k + 1] here.                          *)
(***************************************************************************)
EXTENDS Integers, Sequences, FiniteSets, TLC

\* Number of index positions the boundary assigns (0 .. MaxSources - 1).
MaxSources == 2
\* Largest cfg.NumWorkers tried.
MaxWorkers == 2

VARIABLES
    sources,          \* the []ImageSource handed to ConvertToPDF
    numWorkers,       \* cfg.NumWorkers
    ctx,              \* ctx.Err(): "none", "canceled" or "deadline"
    mpc,              \* position of the calling goroutine
    validSources,     \* ConvertToPDF's validSources
    li,               \* launch loop variable i (1-based)
    results,          \* results / processedImageInfos (one backing array)
    tpc,              \* position of each item goroutine
    tres,             \* processedResult of each item goroutine
    sem,              \* len(semaphoreChan)
    wg,               \* the WaitGroup counter
    chan,             \* processedImageChan's buffer
    chClosed,         \* processedImageChan is closed
    closerStarted,    \* the wg.Wait() goroutine has been started
    gk,               \* generatePDFFromProcessedImages' loop variable i (1-based)
    hasContent,       \* generatePDFFromProcessedImages' hasContent
    deferred,         \* indexes whose reader clean-up is deferred to the return
    pages,            \* pages of the gofpdf document
    writes,           \* number of pdf.Output(writer) calls that reached the writer
    genRet,           \* what generatePDFFromProcessedImages returned
    ret,              \* what ConvertToPDF returned
    closes,           \* Close() calls on each descriptor's Reader, by index
    bufPuts,          \* bufferPool.Put calls on each result's buffer, by index
    ctxAtCall,        \* history: ctx.Err() when ConvertToPDF was called
    ctxAtDecision,    \* history: ctx as read by ConvertToPDF's latest check
    normCalls,        \* history: indexes processSingleImage was invoked on
    picCalled,        \* history: processImagesConcurrently was called
    genCalled,        \* history: generatePDFFromProcessedImages was called
    outOfOrder,       \* history: a result was published after one of higher index
    pdfFailed,        \* history: the PDF layer rejected an image
    waitingAtCancel,  \* history: goroutines before their first select's
                      \*          outcome when the signal was set
    slotFreeAtCancel, \* history: a slot was free when the signal was set
    sent,             \* history: the result each item goroutine published
    reads,            \* history: indexes whose stream was read or decoded
    psiCancelled,     \* history: goroutines whose processSingleImage call
                      \*          found the signal set
    hpc,              \* position of HandleConvert ("off": no request)
    form,             \* the parsed multipart form of the request
    fetch,            \* the URL goroutines of HandleConvert, by URL number
    fetchedChan,      \* fetchedChan's buffer
    status,           \* the HTTP status written (0: none yet)
    fileExists,       \* the CLI's output file exists
    exitCode,         \* the CLI's exit status (-1: still running)
    ci,               \* the CLI's collection loop variable i (1-based)
    cfgIn,            \* the client's config JSON, decoded
    cfgOut            \* the Config and file name HandleConvert uses

vars == <<sources, numWorkers, ctx, mpc, validSources, li, results, tpc, tres,
          sem, wg, chan, chClosed, closerStarted, gk, hasContent, deferred,
          pages, writes, genRet, ret, closes, bufPuts, ctxAtCall,
          ctxAtDecision, normCalls, picCalled, genCalled, outOfOrder,
          pdfFailed, waitingAtCancel, slotFreeAtCancel, sent, reads,
          psiCancelled, hpc, form, fetch, fetchedChan, status, fileExists,
          exitCode, ci, cfgIn, cfgOut>>

\* The state of the HTTP handler, of the CLI's file and exit status and of
\* the handler's configuration: the converter package leaves them alone.
extVars == <<hpc, form, fetch, fetchedChan, status, fileExists, exitCode,
             ci, cfgIn, cfgOut>>

\* The history variables about the item goroutines.
obsVars == <<waitingAtCancel, slotFreeAtCancel, sent, reads, psiCancelled>>

Indexes == 0 .. (MaxSources - 1)
Positions == 1 .. MaxSources

(***************************************************************************)
(* Data                                                                    *)
(***************************************************************************)

\* What a descriptor is: "jpg" a stream of valid JPEG/PNG data declared as
\* such, "webp" a stream of valid WebP data, "bad" a stream that does not
\* decode, "url" no stream but a URL, "nil" neither stream nor URL.
Kinds == {"jpg", "webp", "bad", "url", "nil"}

ImageSource(idx, kind) == [Index |-> idx, kind |-> kind]

HasReader(src) == src.kind \in {"jpg", "webp", "bad"}

HasURL(src) == src.kind = "url"

\* The zero value of ProcessedImage (make([]ProcessedImage, n)).
ZeroImage == [Index |-> 0, named |-> FALSE, Error |-> "nil", Reader |-> "none"]

ProcessedImage(idx, err, reader) ==
    [Index |-> idx, named |-> TRUE, Error |-> err, Reader |-> reader]

\* errors.Is(err, context.Canceled)
IsCanceled(err) == err = "canceled"

\* errors.Is(err, context.Canceled) || errors.Is(err, context.DeadlineExceeded)
IsCancellation(err) == err \in {"canceled", "deadline", "wrap_deadline"}

\* fmt.Errorf("pdf generation failed: %w", genErr)
Wrap(err) == IF err = "deadline" THEN "wrap_deadline" ELSE "wrap_write"

Done(c) == c # "none"

(***************************************************************************)
(* Initial states: the list the boundary hands over.  The boundary gives   *)
(* position i the index i and drops the URL descriptors whose fetch        *)
(* failed, so the list is ascending in Index and may have gaps.            *)
(***************************************************************************)

RECURSIVE ListFrom(_, _)
ListFrom(f, i) ==
    IF i >= MaxSources THEN <<>>
    ELSE (IF f[i] = "dropped" THEN <<>> ELSE <<ImageSource(i, f[i])>>)
         \o ListFrom(f, i + 1)

SourceLists == { ListFrom(f, 0) : f \in [Indexes -> Kinds \cup {"dropped"}] }

\* Nothing has run yet: the state of the pipeline before its entry point
\* is called.
PipelineIdle ==
    /\ validSources = <<>>
    /\ li = 1
    /\ results = <<>>
    /\ tpc = [p \in Positions |-> "idle"]
    /\ tres = [p \in Positions |-> ZeroImage]
    /\ sem = 0
    /\ wg = 0
    /\ chan = <<>>
    /\ chClosed = FALSE
    /\ closerStarted = FALSE
    /\ gk = 1
    /\ hasContent = FALSE
    /\ deferred = {}
    /\ pages = <<>>
    /\ writes = 0
    /\ genRet = [hasContent |-> FALSE, err |-> "nil"]
    /\ ret = [hasContent |-> FALSE, err |-> "nil"]
    /\ closes = [i \in Indexes |-> 0]
    /\ bufPuts = [i \in Indexes |-> 0]
    /\ ctxAtDecision = "none"
    /\ normCalls = {}
    /\ picCalled = FALSE
    /\ genCalled = FALSE
    /\ outOfOrder = FALSE
    /\ pdfFailed = FALSE
    /\ waitingAtCancel = {}
    /\ slotFreeAtCancel = FALSE
    /\ sent = [p \in Positions |-> ZeroImage]
    /\ reads = {}
    /\ psiCancelled = {}
    /\ ci = 1

\* No HTTP request.
HandlerIdle ==
    /\ hpc = "off"
    /\ form = <<>>
    /\ fetch = <<>>
    /\ fetchedChan = <<>>
    /\ status = 0

\* No CLI run.
CliIdle ==
    /\ fileExists = FALSE
    /\ exitCode = -1

\* No client configuration.
ConfigIdle ==
    /\ cfgIn = <<>>
    /\ cfgOut = <<>>

Init ==
    /\ sources \in SourceLists
    /\ numWorkers \in 1 .. MaxWorkers
    /\ ctx \in {"none", "canceled", "deadline"}
    /\ mpc = "entry"
    /\ ctxAtCall = ctx
    /\ PipelineIdle
    /\ HandlerIdle
    /\ CliIdle
    /\ ConfigIdle

(***************************************************************************)
(* Helpers                                                                 *)
(***************************************************************************)

\* One more Close() on the Reader of every index in S.
CloseAll(cl, S) == [i \in Indexes |-> IF i \in S THEN cl[i] + 1 ELSE cl[i]]

\* One more bufferPool.Put of the buffer of every index in S.
PutAll(bp, S) == [i \in Indexes |-> IF i \in S THEN bp[i] + 1 ELSE bp[i]]

\* The clean-up idiom `if closer, ok := r.(io.Closer) ... else if buf, ok :=
\* r.(*bytes.Buffer) { bufferPool.Put(buf) }`: a *bytes.Reader is neither,
\* a pooled buffer is put back.
Releases(img) == img.Reader = "buf"

\* Faulty variant of EntryCancelled: the first select is missing.
EntryNeverCancelled(c) == FALSE

\* `case <-ctx.Done():` of the first select of ConvertToPDF.
EntryCancelled(c) == Done(c)

\* Faulty variant of IsValidSource: the filter keeps every source.
IsValidSourceAlways(src) == TRUE

\* The filter of ConvertToPDF: a source with neither Reader nor URL is skipped.
IsValidSource(src) == ~(~HasReader(src) /\ ~HasURL(src))

\* res.Index >= 0 && res.Index < len(results)
InBounds(idx, n) == idx >= 0 /\ idx < n

(***************************************************************************)
(* The environment: the caller cancels, or the deadline expires, at any     *)
(* moment of the call (a signal set before the call is in Init).           *)
(***************************************************************************)

Cancel ==
    /\ ctx = "none"
    /\ mpc \notin {"entry", "done"}
    /\ ctx' \in {"canceled", "deadline"}
    /\ waitingAtCancel' = {p \in Positions : tpc[p] = "wait"}
    /\ slotFreeAtCancel' = (sem < numWorkers)
    /\ UNCHANGED <<sources, numWorkers, mpc, validSources, li, results, tpc,
                   tres, sem, wg, chan, chClosed, closerStarted, gk,
                   hasContent, deferred, pages, writes, genRet, ret, closes,
                   bufPuts, ctxAtCall, ctxAtDecision, normCalls,
                   picCalled, genCalled, outOfOrder, pdfFailed,
                   sent, reads, psiCancelled, extVars>>

(***************************************************************************)
(* ConvertToPDF, up to the call of processImagesConcurrently               *)
(***************************************************************************)

\* The first select, the empty-list check and the filter.  With no valid
\* source left, the Readers of the original list are closed (there are none:
\* a source with a Reader is valid).  Otherwise processImagesConcurrently is
\* called with a non-empty list, so its own len == 0 return is never taken,
\* and allocates results with zero values.
ConvertEntry ==
    /\ mpc = "entry"
    /\ ctxAtDecision' = ctx
    /\ IF EntryCancelled(ctx) THEN
          /\ ret' = [hasContent |-> FALSE, err |-> ctx]
          /\ mpc' = "done"
          /\ UNCHANGED <<validSources, results, closes, picCalled>>
       ELSE IF Len(sources) = 0 THEN
          /\ ret' = [hasContent |-> FALSE, err |-> "nosupported"]
          /\ mpc' = "done"
          /\ UNCHANGED <<validSources, results, closes, picCalled>>
       ELSE LET vs == SelectSeq(sources, IsValidSource) IN
          IF Len(vs) = 0 THEN
             /\ closes' = CloseAll(closes,
                    {sources[k].Index : k \in {k \in DOMAIN sources :
                                                  HasReader(sources[k])}})
             /\ ret' = [hasContent |-> FALSE, err |-> "nosupported"]
             /\ mpc' = "done"
             /\ UNCHANGED <<validSources, results, picCalled>>
          ELSE
             /\ validSources' = vs
             /\ results' = [k \in 1 .. Len(vs) |-> ZeroImage]
             /\ picCalled' = TRUE
             /\ mpc' = "launch"
             /\ UNCHANGED <<ret, closes>>
    /\ UNCHANGED <<sources, numWorkers, ctx, li, tpc, tres, sem, wg, chan,
                   chClosed, closerStarted, gk, hasContent, deferred, pages,
                   writes, genRet, bufPuts, normCalls, genCalled, outOfOrder,
                   ctxAtCall, pdfFailed,
                   obsVars, extVars>>

(***************************************************************************)
(* processImagesConcurrently: the launch loop                              *)
(***************************************************************************)

cfgVars == <<sources, numWorkers>>
genVars == <<gk, hasContent, deferred, pages, writes, genRet>>
histVars == <<ctxAtCall, picCalled, genCalled, pdfFailed>>

\* Faulty variant of CancelledImage: the Error field is left out.
CancelledImageNoError(src, c) == ProcessedImage(src.Index, "nil", "none")

\* The result a cancelled descriptor gets:
\* ProcessedImage{Index: src.Index, OriginalFilename: ..., Error: ctx.Err()}
CancelledImage(src, c) == ProcessedImage(src.Index, c, "none")

\* One iteration of `for i, source := range imageSources`: either the
\* select sees ctx.Done(), marks the remaining positions and leaves the loop,
\* or the item goroutine of position li is started.
Launch ==
    /\ mpc = "launch"
    /\ IF Done(ctx) THEN
          LET rest == {j \in li .. Len(validSources) : ~results[j].named} IN
          /\ results' = [j \in DOMAIN results |->
                            IF j \in rest
                            THEN CancelledImage(validSources[j], ctx)
                            ELSE results[j]]
          /\ closes' = CloseAll(closes,
                 {validSources[j].Index : j \in {j \in rest :
                                                   HasReader(validSources[j])}})
          /\ mpc' = "collectInit"
          /\ UNCHANGED <<wg, tpc, li>>
       ELSE
          /\ wg' = wg + 1
          /\ tpc' = [tpc EXCEPT ![li] = "wait"]
          /\ li' = li + 1
          /\ mpc' = IF li = Len(validSources) THEN "collectInit" ELSE "launch"
          /\ UNCHANGED <<results, closes>>
    /\ UNCHANGED <<cfgVars, ctx, validSources, tres, sem, chan, chClosed,
                   closerStarted, genVars, ret, bufPuts, histVars,
                   ctxAtDecision, normCalls, outOfOrder,
                   obsVars, extVars>>

\* After the loop: `go func() { wg.Wait(); close(...) }()` is started and
\* every results[i].Index is set to -1 ("Mark as not filled").
CollectInit ==
    /\ mpc = "collectInit"
    /\ closerStarted' = TRUE
    /\ results' = [j \in DOMAIN results |-> [results[j] EXCEPT !.Index = -1]]
    /\ mpc' = "collect"
    /\ UNCHANGED <<cfgVars, ctx, validSources, li, tpc, tres, sem, wg, chan,
                   chClosed, genVars, ret, closes, bufPuts, histVars,
                   ctxAtDecision, normCalls, outOfOrder,
                   obsVars, extVars>>

(***************************************************************************)
(* processImagesConcurrently: the item goroutine of position p             *)
(***************************************************************************)

\* Faulty variant of processSingleImage: the select on ctx.Done() at its
\* start is missing.
processSingleImageNoCtxCheck(src, c) ==
    IF ~HasReader(src) THEN ProcessedImage(src.Index, "nilreader", "none")
    ELSE IF src.kind = "jpg" THEN ProcessedImage(src.Index, "nil", "bytes")
    ELSE IF src.kind = "webp" THEN ProcessedImage(src.Index, "nil", "buf")
    ELSE ProcessedImage(src.Index, "decode", "none")

\* processSingleImage reaches io.ReadAll or a Decode of source.Reader: it
\* passed the select on ctx.Done() and the nil check.
ReadsStream(src, c) == ~Done(c) /\ HasReader(src)

\* processSingleImage(ctx, cfg, source): the ProcessedImage it returns.
processSingleImage(src, c) ==
    IF Done(c) THEN CancelledImage(src, c)
    ELSE IF ~HasReader(src) THEN ProcessedImage(src.Index, "nilreader", "none")
    ELSE IF src.kind = "jpg" THEN ProcessedImage(src.Index, "nil", "bytes")
    ELSE IF src.kind = "webp" THEN ProcessedImage(src.Index, "nil", "buf")
    ELSE ProcessedImage(src.Index, "decode", "none")

\* Faulty variant of CloseReader: the stream is left open.
CloseReaderForgotten(cl, src) == cl

\* `if src.Reader != nil { src.Reader.Close() }`
CloseReader(cl, src) ==
    IF HasReader(src) THEN CloseAll(cl, {src.Index}) ELSE cl

\* procesedImageChan <- res, and the history of the publishing order.
\* Faulty variant of ChanCapacity: room for one result only.
ChanCapacityOne(srcs) == 1

\* `make(chan ProcessedImage, len(imageSources))`
ChanCapacity(srcs) == Len(srcs)

\* A send on processedImageChan is ready while the buffer has room; the
\* collection loop receives only after the launch loop has ended.
SendReady(ch, srcs) == Len(ch) < ChanCapacity(srcs)

\* Faulty variant of ResultsAfterSend: the goroutine stores its result in
\* the array itself.
ResultsStoredBySender(rs, q, res) == [rs EXCEPT ![q] = res]

\* The goroutine is `go func(src ImageSource) {...}(source)`: it works on
\* src, ctx, cfg and the two channels, and hands its result over with
\* `processedImageChan <- ...`; results is left as it is.
ResultsAfterSend(rs, q, res) == rs

Publish(q, res) ==
    /\ SendReady(chan, validSources)
    /\ chan' = Append(chan, res)
    /\ results' = ResultsAfterSend(results, q, res)
    /\ sent' = [sent EXCEPT ![q] = res]
    /\ outOfOrder' = (outOfOrder \/
                      \E p \in Positions :
                          /\ tpc[p] = "done"
                          /\ p <= Len(validSources)
                          /\ validSources[p].Index > res.Index)

\* Faulty variant of WgDone: the deferred call is missing.
WgDoneForgotten(n) == n

\* `defer wg.Done()`, run when the item goroutine returns.
WgDone(n) == n - 1

\* Faulty variant of ReleaseSlot: the deferred receive is missing.
ReleaseSlotForgotten(n) == n

\* `<-semaphoreChan`, deferred by a goroutine that acquired a slot.
ReleaseSlot(n) == n - 1

\* Faulty variant of SlotFree: the send never blocks.
SlotAlwaysFree(n, w) == TRUE

\* A send on semaphoreChan, made with capacity numWorkers, is ready while
\* fewer than numWorkers values are in it.
SlotFree(n, w) == n < w

\* `case semaphoreChan <- struct{}{}:` of the first select.
TaskAcquire(p) ==
    /\ tpc[p] = "wait"
    /\ SlotFree(sem, numWorkers)
    /\ sem' = sem + 1
    /\ tpc' = [tpc EXCEPT ![p] = "held"]
    /\ UNCHANGED <<cfgVars, ctx, mpc, validSources, li, results, tres, wg,
                   chan, chClosed, closerStarted, genVars, ret, closes,
                   bufPuts, histVars, ctxAtDecision, normCalls, outOfOrder,
                   obsVars, extVars>>

\* `case <-ctx.Done():` of the first select: no slot was taken.
TaskCancelWaiting(p) ==
    /\ tpc[p] = "wait"
    /\ Done(ctx)
    /\ closes' = CloseReader(closes, validSources[p])
    /\ Publish(p, CancelledImage(validSources[p], ctx))
    /\ tpc' = [tpc EXCEPT ![p] = "done"]
    /\ wg' = WgDone(wg)
    /\ UNCHANGED <<cfgVars, ctx, mpc, validSources, li, tres, sem,
                   chClosed, closerStarted, genVars, ret, bufPuts, histVars,
                   ctxAtDecision, normCalls,
                   waitingAtCancel, slotFreeAtCancel, reads, psiCancelled,
                   extVars>>

\* Faulty variant of RecheckCancelled: the second select always takes its
\* default case.
RecheckNeverCancelled(c) == FALSE

\* `select { case <-ctx.Done(): ... default: }` after the slot was taken.
RecheckCancelled(c) == Done(c)

\* The second select, holding a slot: cancelled, or processSingleImage is
\* called.
TaskRecheck(p) ==
    /\ tpc[p] = "held"
    /\ IF RecheckCancelled(ctx) THEN
          /\ closes' = CloseReader(closes, validSources[p])
          /\ Publish(p, CancelledImage(validSources[p], ctx))
          /\ tpc' = [tpc EXCEPT ![p] = "done"]
          /\ sem' = ReleaseSlot(sem)
          /\ wg' = WgDone(wg)
          /\ UNCHANGED normCalls
       ELSE
          /\ normCalls' = normCalls \cup {validSources[p].Index}
          /\ tpc' = [tpc EXCEPT ![p] = "psi"]
          /\ UNCHANGED <<closes, chan, results, outOfOrder, sent, sem, wg>>
    /\ UNCHANGED <<cfgVars, ctx, mpc, validSources, li, tres,
                   chClosed, closerStarted, genVars, ret, bufPuts, histVars,
                   ctxAtDecision,
                   waitingAtCancel, slotFreeAtCancel, reads, psiCancelled,
                   extVars>>

\* processSingleImage runs: its own select on ctx.Done(), then the decode.
\* The Reader is closed on the cancelled path and by the deferred Close.
TaskNormalize(p) ==
    /\ tpc[p] = "psi"
    /\ tres' = [tres EXCEPT ![p] = processSingleImage(validSources[p], ctx)]
    /\ closes' = CloseReader(closes, validSources[p])
    /\ tpc' = [tpc EXCEPT ![p] = "send"]
    /\ psiCancelled' = IF Done(ctx) THEN psiCancelled \cup {p}
                       ELSE psiCancelled
    /\ reads' = IF ReadsStream(validSources[p], ctx)
                THEN reads \cup {validSources[p].Index} ELSE reads
    /\ UNCHANGED <<cfgVars, ctx, mpc, validSources, li, results, sem, wg,
                   chan, chClosed, closerStarted, genVars, ret, bufPuts,
                   histVars, ctxAtDecision, normCalls, outOfOrder,
                   waitingAtCancel, slotFreeAtCancel, sent, extVars>>

\* `case processedImageChan <- processedResult:` of the last select; the
\* channel has capacity len(imageSources), so the send is always ready.
TaskSend(p) ==
    /\ tpc[p] = "send"
    /\ Publish(p, tres[p])
    /\ tpc' = [tpc EXCEPT ![p] = "done"]
    /\ sem' = ReleaseSlot(sem)
    /\ wg' = WgDone(wg)
    /\ UNCHANGED <<cfgVars, ctx, mpc, validSources, li, tres,
                   chClosed, closerStarted, genVars, ret, closes, bufPuts,
                   histVars, ctxAtDecision, normCalls,
                   waitingAtCancel, slotFreeAtCancel, reads, psiCancelled,
                   extVars>>

\* `case <-ctx.Done():` of the last select: the error is set when there was
\* none, the buffer goes back to the pool, and the result is sent with its
\* Reader field unchanged.
TaskSendCancelled(p) ==
    /\ tpc[p] = "send"
    /\ Done(ctx)
    /\ LET res == IF tres[p].Error = "nil"
                  THEN [tres[p] EXCEPT !.Error = ctx] ELSE tres[p] IN
       /\ bufPuts' = IF Releases(res) THEN PutAll(bufPuts, {res.Index})
                     ELSE bufPuts
       /\ tres' = [tres EXCEPT ![p] = res]
       /\ Publish(p, res)
    /\ tpc' = [tpc EXCEPT ![p] = "done"]
    /\ sem' = ReleaseSlot(sem)
    /\ wg' = WgDone(wg)
    /\ UNCHANGED <<cfgVars, ctx, mpc, validSources, li, chClosed,
                   closerStarted, genVars, ret, closes, histVars,
                   ctxAtDecision, normCalls,
                   waitingAtCancel, slotFreeAtCancel, reads, psiCancelled,
                   extVars>>

\* Faulty variant of WaitReturns: the goroutine does not wait.
WaitReturnsEarly(n) == TRUE

\* `wg.Wait()` returns when the counter is zero.
WaitReturns(n) == n = 0

\* The completion goroutine: wg.Wait() returns, close(processedImageChan).
\* It is started once and closes once: ~chClosed is its position.
CloseChannel ==
    /\ closerStarted
    /\ WaitReturns(wg)
    /\ ~chClosed
    /\ chClosed' = TRUE
    /\ UNCHANGED <<cfgVars, ctx, mpc, validSources, li, results, tpc, tres,
                   sem, wg, chan, closerStarted, genVars, ret, closes,
                   bufPuts, histVars, ctxAtDecision, normCalls, outOfOrder,
                   obsVars, extVars>>

(***************************************************************************)
(* processImagesConcurrently: collection and the final pass                *)
(***************************************************************************)

taskVars == <<tpc, tres, sem, wg, normCalls, outOfOrder>>

\* One iteration of `for res := range processedImageChan`: the result goes to
\* results[res.Index], or is dropped (and cleaned up when it has no error)
\* when its index is out of bounds.
Collect ==
    /\ mpc = "collect"
    /\ Len(chan) > 0
    /\ LET res == Head(chan) IN
       IF InBounds(res.Index, Len(results)) THEN
          /\ results' = [results EXCEPT ![res.Index + 1] = res]
          /\ UNCHANGED bufPuts
       ELSE
          /\ bufPuts' = IF res.Error = "nil" /\ Releases(res)
                        THEN PutAll(bufPuts, {res.Index}) ELSE bufPuts
          /\ UNCHANGED results
    /\ chan' = Tail(chan)
    /\ UNCHANGED <<cfgVars, ctx, mpc, validSources, li, taskVars, chClosed,
                   closerStarted, genVars, ret, closes, histVars,
                   ctxAtDecision,
                   obsVars, extVars>>

\* The range loop ends: the channel is closed and drained.
CollectEnd ==
    /\ mpc = "collect"
    /\ Len(chan) = 0
    /\ chClosed
    /\ mpc' = "reconcile"
    /\ UNCHANGED <<cfgVars, ctx, validSources, li, results, taskVars, chan,
                   chClosed, closerStarted, genVars, ret, closes, bufPuts,
                   histVars, ctxAtDecision,
                   obsVars, extVars>>

\* What the final pass makes of results[src.Index] for one src.
Reconciled(img, src, c) ==
    IF img.Index = -1 \/ ~img.named THEN CancelledImage(src, c)
    ELSE IF img.Error = "nil" THEN [img EXCEPT !.Error = c, !.Reader = "none"]
    ELSE img

\* The sources whose Index addresses the Go slot results[k - 1 + 1].
SourcesAt(k) == {j \in DOMAIN validSources : validSources[j].Index = k - 1}

\* `if ctx.Err() != nil { for _, src := range imageSources { ... } }`, then
\* `return results`.
Reconcile ==
    /\ mpc = "reconcile"
    /\ IF Done(ctx) THEN
          /\ results' = [k \in DOMAIN results |->
                IF SourcesAt(k) = {} THEN results[k]
                ELSE Reconciled(results[k],
                                validSources[CHOOSE j \in SourcesAt(k) : TRUE],
                                ctx)]
          /\ bufPuts' = PutAll(bufPuts,
                {results[k].Index : k \in {k \in DOMAIN results :
                    /\ SourcesAt(k) # {}
                    /\ ~(results[k].Index = -1 \/ ~results[k].named)
                    /\ results[k].Error = "nil"
                    /\ Releases(results[k])}})
       ELSE UNCHANGED <<results, bufPuts>>
    /\ mpc' = "pregen"
    /\ UNCHANGED <<cfgVars, ctx, validSources, li, taskVars, chan, chClosed,
                   closerStarted, genVars, ret, closes, histVars,
                   ctxAtDecision,
                   obsVars, extVars>>

(***************************************************************************)
(* ConvertToPDF, between the coordinator and the assembler                 *)
(***************************************************************************)

\* Faulty variant of Less: the comparison is reversed.
LessDescending(a, b) == a.Index > b.Index

\* processedImages[i].Index < processedImages[j].Index
Less(a, b) == a.Index < b.Index

\* sort.SliceStable by Less: a stable insertion sort.
RECURSIVE InsertStable(_, _)
InsertStable(img, s) ==
    IF s = <<>> THEN <<img>>
    ELSE IF Less(img, Head(s)) THEN <<img>> \o s
    ELSE <<Head(s)>> \o InsertStable(img, Tail(s))

RECURSIVE SortStable(_)
SortStable(s) ==
    IF s = <<>> THEN <<>>
    ELSE InsertStable(s[Len(s)], SortStable(SubSeq(s, 1, Len(s) - 1)))

\* The "final safeguard" (a Close of every valid source whose index no result
\* carries), then the select on ctx.Done() before the PDF generation:
\* cancelled, the buffers of the results are put back and (false, ctx.Err())
\* is returned; otherwise generatePDFFromProcessedImages is entered and sorts
\* its argument in place.
PreGenerate ==
    /\ mpc = "pregen"
    /\ LET processedIndexes == {results[k].Index : k \in DOMAIN results} IN
       closes' = CloseAll(closes,
           {validSources[j].Index : j \in {j \in DOMAIN validSources :
               /\ validSources[j].Index \notin processedIndexes
               /\ HasReader(validSources[j])}})
    /\ ctxAtDecision' = ctx
    /\ IF Done(ctx) THEN
          /\ bufPuts' = PutAll(bufPuts,
                {results[k].Index : k \in {k \in DOMAIN results :
                    /\ results[k].Error = "nil" \/ ~IsCanceled(results[k].Error)
                    /\ Releases(results[k])}})
          /\ ret' = [hasContent |-> FALSE, err |-> ctx]
          /\ mpc' = "done"
          /\ UNCHANGED <<results, genCalled>>
       ELSE
          /\ genCalled' = TRUE
          /\ results' = SortStable(results)
          /\ mpc' = "genloop"
          /\ UNCHANGED <<bufPuts, ret>>
    /\ UNCHANGED <<cfgVars, ctx, validSources, li, taskVars, chan, chClosed,
                   closerStarted, genVars, ctxAtCall, picCalled, pdfFailed,
                   obsVars, extVars>>

(***************************************************************************)
(* generatePDFFromProcessedImages                                          *)
(***************************************************************************)

\* What the PDF layer does with one image: every call succeeds ("ok"), or
\* AddPageFormat, RegisterImageOptionsReader or ImageOptions sets pdf.Err().
PdfOutcomes == {"ok", "addfail", "regfail", "placefail"}

\* Faulty variant of Embedded: hasContent is set as soon as the page exists.
EmbeddedOnPageAdded(o) == o # "addfail"

\* `hasContent = true` is reached only when none of the three calls failed.
Embedded(o) == o = "ok"

\* AddPageFormat succeeded: the document has one more page.  The image is on
\* it only when the two later calls succeeded too.
PagesAfter(pgs, img, o) ==
    IF o = "addfail" THEN pgs
    ELSE Append(pgs, [Index |-> img.Index, image |-> (o = "ok")])

\* The deferred clean-ups run when the function returns.
RunDeferred(bp, d) == PutAll(bp, d)

\* One iteration of `for i, res := range processedImages`.
GenStep ==
    /\ mpc = "genloop"
    /\ gk <= Len(results)
    /\ ctxAtDecision' = ctx
    /\ LET res == results[gk] IN
       IF Done(ctx) THEN
          /\ bufPuts' = RunDeferred(
                 IF res.Error = "nil" /\ Releases(res)
                 THEN PutAll(bufPuts, {res.Index}) ELSE bufPuts, deferred)
          /\ deferred' = {}
          /\ genRet' = [hasContent |-> hasContent, err |-> ctx]
          /\ mpc' = "decide"
          /\ UNCHANGED <<gk, hasContent, pages, pdfFailed>>
       ELSE IF res.Error # "nil" THEN
          /\ bufPuts' = IF Releases(res) THEN PutAll(bufPuts, {res.Index})
                        ELSE bufPuts
          /\ gk' = gk + 1
          /\ UNCHANGED <<deferred, genRet, mpc, hasContent, pages, pdfFailed>>
       ELSE IF res.Reader = "none" THEN
          /\ gk' = gk + 1
          /\ UNCHANGED <<bufPuts, deferred, genRet, mpc, hasContent, pages,
                         pdfFailed>>
       ELSE \E o \in PdfOutcomes :
          /\ deferred' = IF Releases(res) THEN deferred \cup {res.Index}
                         ELSE deferred
          /\ pages' = PagesAfter(pages, res, o)
          /\ hasContent' = (hasContent \/ Embedded(o))
          /\ pdfFailed' = (pdfFailed \/ o # "ok")
          /\ gk' = gk + 1
          /\ UNCHANGED <<bufPuts, genRet, mpc>>
    /\ UNCHANGED <<cfgVars, ctx, validSources, li, results, taskVars, chan,
                   chClosed, closerStarted, writes, ret, closes, ctxAtCall,
                   picCalled, genCalled,
                   obsVars, extVars>>

\* Faulty variant of ShouldWrite: the document is written unconditionally.
ShouldWriteAlways(hc) == TRUE

\* `if hasContent { pdf.Output(writer) }`
ShouldWrite(hc) == hc

\* After the loop: the select on ctx.Done() "before writing PDF output",
\* then the choice between writing and returning (false, nil).  pdf.Err() is
\* false here, every error having been cleared in the loop; the ctx.Err()
\* read of the no-content branch returns what the select would have returned
\* and is one step with it.
GenFinal ==
    /\ mpc = "genloop"
    /\ gk > Len(results)
    /\ ctxAtDecision' = ctx
    /\ IF Done(ctx) THEN
          /\ genRet' = [hasContent |-> hasContent, err |-> ctx]
          /\ bufPuts' = RunDeferred(bufPuts, deferred)
          /\ deferred' = {}
          /\ mpc' = "decide"
       ELSE IF ShouldWrite(hasContent) THEN
          /\ mpc' = "output"
          /\ UNCHANGED <<genRet, bufPuts, deferred>>
       ELSE
          /\ genRet' = [hasContent |-> hasContent, err |-> "nil"]
          /\ bufPuts' = RunDeferred(bufPuts, deferred)
          /\ deferred' = {}
          /\ mpc' = "decide"
    /\ UNCHANGED <<cfgVars, ctx, validSources, li, results, taskVars, chan,
                   chClosed, closerStarted, gk, hasContent, pages, writes,
                   ret, closes, histVars,
                   obsVars, extVars>>

\* What the writer can answer: any io.Writer may fail, the bytes.Buffer
\* HandleConvert passes never does.
WriterOutcomes == IF hpc = "off" THEN BOOLEAN ELSE {TRUE}

\* pdf.Output(writer): the document goes to the writer, which may fail.
Output ==
    /\ mpc = "output"
    /\ writes' = writes + 1
    /\ \E ok \in WriterOutcomes :
          genRet' = IF ok THEN [hasContent |-> hasContent, err |-> "nil"]
                    ELSE [hasContent |-> TRUE, err |-> "write"]
    /\ bufPuts' = RunDeferred(bufPuts, deferred)
    /\ deferred' = {}
    /\ mpc' = "decide"
    /\ UNCHANGED <<cfgVars, ctx, validSources, li, results, taskVars, chan,
                   chClosed, closerStarted, gk, hasContent, pages, ret,
                   closes, histVars, ctxAtDecision,
                   obsVars, extVars>>

(***************************************************************************)
(* ConvertToPDF: the outcome                                               *)
(***************************************************************************)

\* Faulty variant of AllCancelled: any error counts as a cancellation.
AllCancelledAnyError(rs) ==
    \A k \in DOMAIN rs : rs[k].Error # "nil"

\* The allCancelled / hasOtherErrors loop: every result has an error and
\* every error is context.Canceled.
AllCancelled(rs) ==
    \A k \in DOMAIN rs : rs[k].Error # "nil" /\ IsCanceled(rs[k].Error)

\* Faulty variant of NoContentOutcome: `if ctx.Err() != nil` is missing.
NoContentOutcomeNoCtx(c, rs) ==
    IF \A k \in DOMAIN rs : rs[k].Error = "canceled"
    THEN [hasContent |-> FALSE, err |-> "canceled"]
    ELSE [hasContent |-> FALSE, err |-> "nosupported"]

\* The outcome when the assembler returned (false, nil).
NoContentOutcome(c, rs) ==
    IF Done(c) THEN [hasContent |-> FALSE, err |-> c]
    ELSE IF AllCancelled(rs) /\ Len(rs) > 0
    THEN [hasContent |-> FALSE, err |-> "canceled"]
    ELSE [hasContent |-> FALSE, err |-> "nosupported"]

\* The outcome when the assembler returned an error.
GenErrorOutcome(g) ==
    IF IsCanceled(g.err) THEN [hasContent |-> g.hasContent, err |-> "canceled"]
    ELSE [hasContent |-> g.hasContent, err |-> Wrap(g.err)]

\* Faulty variant of NothingAdded: the check after the assembler is missing.
NothingAddedIgnored(hc, n) == FALSE

\* `if !contentAdded && len(validSources) > 0`
NothingAdded(hc, n) == ~hc /\ n > 0

Decide ==
    /\ mpc = "decide"
    /\ IF genRet.err # "nil" THEN
          /\ ret' = GenErrorOutcome(genRet)
          /\ UNCHANGED ctxAtDecision
       ELSE IF NothingAdded(genRet.hasContent, Len(validSources)) THEN
          /\ ret' = NoContentOutcome(ctx, results)
          /\ ctxAtDecision' = ctx
       ELSE
          /\ ret' = [hasContent |-> genRet.hasContent, err |-> "nil"]
          /\ UNCHANGED ctxAtDecision
    /\ mpc' = "done"
    /\ UNCHANGED <<cfgVars, ctx, validSources, li, results, taskVars, chan,
                   chClosed, closerStarted, genVars, closes, bufPuts,
                   histVars,
                   obsVars, extVars>>

(***************************************************************************)
(* Specifications                                                          *)
(***************************************************************************)

Task(p) ==
    \/ TaskAcquire(p)
    \/ TaskCancelWaiting(p)
    \/ TaskRecheck(p)
    \/ TaskNormalize(p)
    \/ TaskSend(p)
    \/ TaskSendCancelled(p)

Main ==
    \/ ConvertEntry
    \/ Launch
    \/ CollectInit
    \/ Collect
    \/ CollectEnd
    \/ Reconcile
    \/ PreGenerate
    \/ GenStep
    \/ GenFinal
    \/ Output
    \/ Decide

Next ==
    \/ Cancel
    \/ Main
    \/ \E p \in Positions : Task(p)
    \/ CloseChannel

Spec == Init /\ [][Next]_vars

\* The descriptors of the runs checked for termination: one kind with a
\* stream and one without.  What a stream decodes to changes the results'
\* fields only, never a guard of the coordinator.
LiveKinds == {"webp", "url"}

LiveInit ==
    /\ Init
    /\ \A k \in DOMAIN sources : sources[k].kind \in LiveKinds

\* The Go scheduler runs every runnable goroutine: each goroutine that can
\* take a step eventually takes one.  Cancellation is not forced.
FairSpec ==
    /\ LiveInit
    /\ [][Next]_vars
    /\ WF_vars(Main)
    /\ WF_vars(CloseChannel)
    /\ \A p \in Positions : WF_vars(Task(p))

TypeOK ==
    /\ mpc \in {"entry", "launch", "collectInit", "collect", "reconcile",
                "pregen", "genloop", "output", "decide", "done"}
    /\ ctx \in {"none", "canceled", "deadline"}
    /\ sem \in 0 .. MaxWorkers
    /\ wg \in 0 .. MaxSources
    /\ Len(chan) <= MaxSources
    /\ writes \in 0 .. 1

(***************************************************************************)
(* The command-line program (package main).  It has its own copy of the    *)
(* pipeline; CliSpec keeps its state in the variables of the same name:    *)
(* sources is the sorted list of image files, closes counts the Close()    *)
(* calls on each opened *os.File, ret is what runApp returns and genRet    *)
(* what convertImagesToPDF returns.  The signal is SIGINT: ctx.Err() is    *)
(* context.Canceled.                                                       *)
(***************************************************************************)

\* The variables the command-line program has no counterpart for.
cliUnused == <<validSources, chan, deferred, ctxAtCall, ctxAtDecision,
               normCalls, picCalled, genCalled, outOfOrder, pdfFailed,
               obsVars, hpc, form, fetch, fetchedChan, status, cfgIn, cfgOut>>

cliTaskVars == <<tpc, tres, sem, wg>>

cliCoordVars == <<li, results, chClosed, closerStarted, ci>>

cliOutVars == <<fileExists, exitCode, ret>>

\* findSupportedImageFiles: the files with a supported extension, sorted by
\* name; file number i gets index i.  A .jpg/.jpeg/.png file is "jpg", a
\* .webp file "webp", a file that does not decode "bad".
CliFileKinds == {"jpg", "webp", "bad"}

CliFileLists ==
    UNION { { [j \in 1 .. n |-> ImageSource(j - 1, f[j])] :
                f \in [1 .. n -> CliFileKinds] } : n \in 0 .. MaxSources }

CliInit ==
    /\ sources \in CliFileLists
    /\ numWorkers \in 1 .. MaxWorkers
    /\ ctx \in {"none", "canceled"}
    /\ mpc = "c_entry"
    /\ ctxAtCall = ctx
    /\ fileExists \in BOOLEAN
    /\ exitCode = -1
    /\ PipelineIdle
    /\ HandlerIdle
    /\ ConfigIdle

\* SIGINT: the signal goroutine calls cancel().
CliCancel ==
    /\ ctx = "none"
    /\ mpc # "c_done"
    /\ ctx' = "canceled"
    /\ UNCHANGED <<cfgVars, mpc, cliTaskVars, cliCoordVars, genVars, closes,
                   bufPuts, cliOutVars, cliUnused>>

\* runApp up to the call of convertImagesToPDF: the select, which removes
\* an output file left by an earlier run, then os.Create.
CliRunApp ==
    /\ mpc = "c_entry"
    /\ IF Done(ctx) THEN
          /\ fileExists' = FALSE
          /\ ret' = [hasContent |-> FALSE, err |-> ctx]
          /\ mpc' = "c_exit"
       ELSE \E created \in BOOLEAN :
          IF created THEN
             /\ fileExists' = TRUE
             /\ mpc' = "c_conv"
             /\ UNCHANGED ret
          ELSE
             /\ ret' = [hasContent |-> FALSE, err |-> "create"]
             /\ mpc' = "c_exit"
             /\ UNCHANGED fileExists
    /\ UNCHANGED <<cfgVars, ctx, cliTaskVars, cliCoordVars, genVars, closes,
                   bufPuts, exitCode, cliUnused>>

\* convertImagesToPDF up to the call of processImagesConcurrently, which
\* allocates results.  The two selects around findSupportedImageFiles return
\* the same value and are one step.
CliConvertEntry ==
    /\ mpc = "c_conv"
    /\ IF Done(ctx) THEN
          /\ genRet' = [hasContent |-> FALSE, err |-> ctx]
          /\ mpc' = "c_finish"
          /\ UNCHANGED results
       ELSE IF Len(sources) = 0 THEN
          /\ genRet' = [hasContent |-> FALSE, err |-> "nosupported"]
          /\ mpc' = "c_finish"
          /\ UNCHANGED results
       ELSE
          /\ results' = [j \in 1 .. Len(sources) |-> ZeroImage]
          /\ mpc' = "c_launch"
          /\ UNCHANGED genRet
    /\ UNCHANGED <<cfgVars, ctx, cliTaskVars, li, chClosed, closerStarted, ci,
                   gk, hasContent, pages, writes, closes, bufPuts,
                   cliOutVars, cliUnused>>

\* results[j] = ProcessedImage{Index: j, ..., Error: ctx.Err()} for every
\* position from `from` on that has no Filename yet.
CliFillCancelled(rs, from, c) ==
    [j \in DOMAIN rs |->
        IF j >= from /\ ~rs[j].named THEN CancelledImage(sources[j], c)
        ELSE rs[j]]

\* One iteration of the launch loop; after the loop the completion
\* goroutine is started.
CliLaunch ==
    /\ mpc = "c_launch"
    /\ IF Done(ctx) THEN
          /\ results' = CliFillCancelled(results, li, ctx)
          /\ mpc' = "c_collect"
          /\ closerStarted' = TRUE
          /\ UNCHANGED <<wg, tpc, li>>
       ELSE
          /\ wg' = wg + 1
          /\ tpc' = [tpc EXCEPT ![li] = "wait"]
          /\ li' = li + 1
          /\ mpc' = IF li = Len(sources) THEN "c_collect" ELSE "c_launch"
          /\ closerStarted' = (li = Len(sources))
          /\ UNCHANGED results
    /\ UNCHANGED <<cfgVars, ctx, tres, sem, chClosed, ci, genVars, closes,
                   bufPuts, cliOutVars, cliUnused>>

\* processImageAndRegister(ctx, cfg, filename, idx): the ProcessedImage it
\* returns.  For a JPEG or PNG file the Reader is the *os.File itself.
processImageAndRegister(src, c) ==
    IF Done(c) THEN CancelledImage(src, c)
    ELSE IF src.kind = "jpg" THEN ProcessedImage(src.Index, "nil", "file")
    ELSE IF src.kind = "webp" THEN ProcessedImage(src.Index, "nil", "buf")
    ELSE ProcessedImage(src.Index, "decode", "none")

\* `defer file.Close()` of processImageAndRegister: it runs whenever the
\* file was opened, that is whenever the select found the signal not set.
CliDeferredClose(cl, src, c) ==
    IF Done(c) THEN cl ELSE CloseAll(cl, {src.Index})

\* The clean-up idiom of package main, first half: an *os.File is an
\* io.Closer and gets one more Close().
CliCloseReader(cl, img) ==
    IF img.Reader = "file" THEN CloseAll(cl, {img.Index}) ELSE cl

\* The clean-up idiom, second half: a *bytes.Buffer goes back to the pool.
CliPutReader(bp, img) ==
    IF img.Reader = "buf" THEN PutAll(bp, {img.Index}) ELSE bp

CliTaskAcquire(p) ==
    /\ tpc[p] = "wait"
    /\ SlotFree(sem, numWorkers)
    /\ sem' = sem + 1
    /\ tpc' = [tpc EXCEPT ![p] = "held"]
    /\ UNCHANGED <<cfgVars, ctx, mpc, tres, wg, cliCoordVars, genVars,
                   closes, bufPuts, cliOutVars, cliUnused>>

\* `case <-ctx.Done():` of the first select: the goroutine goes to a plain
\* send on the unbuffered channel, holding no slot.
CliTaskCancelWaiting(p) ==
    /\ tpc[p] = "wait"
    /\ Done(ctx)
    /\ tres' = [tres EXCEPT ![p] = CancelledImage(sources[p], ctx)]
    /\ tpc' = [tpc EXCEPT ![p] = "bsendNoSlot"]
    /\ UNCHANGED <<cfgVars, ctx, mpc, sem, wg, cliCoordVars, genVars,
                   closes, bufPuts, cliOutVars, cliUnused>>

\* processImageAndRegister runs, and its deferred file.Close() with it.
CliTaskProcess(p) ==
    /\ tpc[p] = "held"
    /\ tres' = [tres EXCEPT ![p] = processImageAndRegister(sources[p], ctx)]
    /\ closes' = CliDeferredClose(closes, sources[p], ctx)
    /\ tpc' = [tpc EXCEPT ![p] = "send"]
    /\ UNCHANGED <<cfgVars, ctx, mpc, sem, wg, cliCoordVars, genVars,
                   bufPuts, cliOutVars, cliUnused>>

\* `case <-ctx.Done():` of the last select: the error is set when there was
\* none, the Reader is cleaned up, and the goroutine goes to a plain send.
CliTaskSendCancelled(p) ==
    /\ tpc[p] = "send"
    /\ Done(ctx)
    /\ tres' = [tres EXCEPT ![p] =
                   IF tres[p].Error = "nil"
                   THEN [tres[p] EXCEPT !.Error = ctx] ELSE tres[p]]
    /\ closes' = CliCloseReader(closes, tres[p])
    /\ bufPuts' = CliPutReader(bufPuts, tres[p])
    /\ tpc' = [tpc EXCEPT ![p] = "bsend"]
    /\ UNCHANGED <<cfgVars, ctx, mpc, sem, wg, cliCoordVars, genVars,
                   cliOutVars, cliUnused>>

\* The goroutines blocked in a send on processedImageChan.
CliSenders == {p \in Positions : tpc[p] \in {"send", "bsend", "bsendNoSlot"}}

\* The send of goroutine p is received: the goroutine returns, and its
\* deferred calls give the slot back (if it has one) and call wg.Done().
CliSendCompletes(p) ==
    /\ p \in CliSenders
    /\ tpc' = [tpc EXCEPT ![p] = "done"]
    /\ sem' = IF tpc[p] = "bsendNoSlot" THEN sem ELSE ReleaseSlot(sem)
    /\ wg' = WgDone(wg)
    /\ UNCHANGED tres

CliCloseChannel ==
    /\ closerStarted
    /\ WaitReturns(wg)
    /\ ~chClosed
    /\ chClosed' = TRUE
    /\ UNCHANGED <<cfgVars, ctx, mpc, cliTaskVars, li, results,
                   closerStarted, ci, genVars, closes, bufPuts, cliOutVars,
                   cliUnused>>

\* `case res, ok := <-processedImageChan:` with ok: results[res.Index] = res.
CliCollectRecv(p) ==
    /\ mpc = "c_collect"
    /\ ci <= Len(sources)
    /\ CliSendCompletes(p)
    /\ results' = [results EXCEPT ![tres[p].Index + 1] = tres[p]]
    /\ ci' = ci + 1
    /\ UNCHANGED <<cfgVars, ctx, mpc, li, chClosed, closerStarted, genVars,
                   closes, bufPuts, cliOutVars, cliUnused>>

\* The same case with the channel closed: the unfilled positions are marked
\* when the signal is set, and the loop is left.
CliCollectClosed ==
    /\ mpc = "c_collect"
    /\ ci <= Len(sources)
    /\ chClosed
    /\ results' = IF Done(ctx) THEN CliFillCancelled(results, 1, ctx)
                  ELSE results
    /\ mpc' = "c_drain"
    /\ UNCHANGED <<cfgVars, ctx, cliTaskVars, li, chClosed, closerStarted,
                   ci, genVars, closes, bufPuts, cliOutVars, cliUnused>>

\* `case <-ctx.Done():` of the collection loop.
CliCollectCancelled ==
    /\ mpc = "c_collect"
    /\ ci <= Len(sources)
    /\ Done(ctx)
    /\ results' = CliFillCancelled(results, 1, ctx)
    /\ mpc' = "c_drain"
    /\ UNCHANGED <<cfgVars, ctx, cliTaskVars, li, chClosed, closerStarted,
                   ci, genVars, closes, bufPuts, cliOutVars, cliUnused>>

\* The loop has run len(imageFiles) times.
CliCollectEnd ==
    /\ mpc = "c_collect"
    /\ ci > Len(sources)
    /\ mpc' = "c_drain"
    /\ UNCHANGED <<cfgVars, ctx, cliTaskVars, cliCoordVars, genVars, closes,
                   bufPuts, cliOutVars, cliUnused>>

\* `if ctx.Err() != nil { for range processedImageChan {} }`
CliDrainCheck ==
    /\ mpc = "c_drain"
    /\ mpc' = IF Done(ctx) THEN "c_draining" ELSE "c_pregen"
    /\ UNCHANGED <<cfgVars, ctx, cliTaskVars, cliCoordVars, genVars, closes,
                   bufPuts, cliOutVars, cliUnused>>

\* The drain loop receives a result and drops it.
CliDrainRecv(p) ==
    /\ mpc = "c_draining"
    /\ CliSendCompletes(p)
    /\ UNCHANGED <<cfgVars, ctx, mpc, cliCoordVars, genVars, closes, bufPuts,
                   cliOutVars, cliUnused>>

\* The drain loop ends when the channel is closed.
CliDrainEnd ==
    /\ mpc = "c_draining"
    /\ chClosed
    /\ mpc' = "c_pregen"
    /\ UNCHANGED <<cfgVars, ctx, cliTaskVars, cliCoordVars, genVars, closes,
                   bufPuts, cliOutVars, cliUnused>>

\* convertImagesToPDF after processImagesConcurrently has returned: the
\* select "before PDF generation phase", with its clean-up of the results
\* that are no context.Canceled results.
CliPreGenerate ==
    /\ mpc = "c_pregen"
    /\ IF Done(ctx) THEN
          LET live == {k \in DOMAIN results : ~IsCanceled(results[k].Error)}
              files == {results[k].Index :
                           k \in {n \in live : results[n].Reader = "file"}}
              bufs == {results[k].Index :
                           k \in {n \in live : results[n].Reader = "buf"}}
          IN /\ closes' = CloseAll(closes, files)
             /\ bufPuts' = PutAll(bufPuts, bufs)
             /\ genRet' = [hasContent |-> FALSE, err |-> ctx]
             /\ mpc' = "c_finish"
       ELSE
          /\ mpc' = "c_genloop"
          /\ UNCHANGED <<closes, bufPuts, genRet>>
    /\ UNCHANGED <<cfgVars, ctx, cliTaskVars, cliCoordVars, gk, hasContent,
                   pages, writes, cliOutVars, cliUnused>>

\* What the PDF layer can answer for one image.  RegisterImageOptionsReader
\* reads res.Reader to its end: on an *os.File that is already closed the
\* read fails, and so does the registration.
CliPdfOutcomes(img, cl) ==
    IF img.Reader = "file" /\ cl[img.Index] > 0 THEN {"addfail", "regfail"}
    ELSE PdfOutcomes

\* One iteration of generatePDFFromProcessedImages' loop (package main):
\* the Reader is cleaned up in the iteration itself.
CliGenStep ==
    /\ mpc = "c_genloop"
    /\ gk <= Len(results)
    /\ LET res == results[gk] IN
       IF Done(ctx) THEN
          /\ closes' = IF res.Error = "nil" THEN CliCloseReader(closes, res)
                       ELSE closes
          /\ bufPuts' = IF res.Error = "nil" THEN CliPutReader(bufPuts, res)
                        ELSE bufPuts
          /\ genRet' = [hasContent |-> hasContent, err |-> ctx]
          /\ mpc' = "c_finish"
          /\ UNCHANGED <<gk, hasContent, pages>>
       ELSE IF res.Error # "nil" THEN
          /\ closes' = CliCloseReader(closes, res)
          /\ bufPuts' = CliPutReader(bufPuts, res)
          /\ gk' = gk + 1
          /\ UNCHANGED <<genRet, mpc, hasContent, pages>>
       ELSE IF res.Reader = "none" THEN
          /\ gk' = gk + 1
          /\ UNCHANGED <<closes, bufPuts, genRet, mpc, hasContent, pages>>
       ELSE \E o \in CliPdfOutcomes(res, closes) :
          /\ closes' = CliCloseReader(closes, res)
          /\ bufPuts' = CliPutReader(bufPuts, res)
          /\ pages' = PagesAfter(pages, res, o)
          /\ hasContent' = (hasContent \/ Embedded(o))
          /\ gk' = gk + 1
          /\ UNCHANGED <<genRet, mpc>>
    /\ UNCHANGED <<cfgVars, ctx, cliTaskVars, cliCoordVars, writes,
                   cliOutVars, cliUnused>>

\* After the loop: the select "before writing PDF output", then the choice
\* between writing and returning (false, nil).
CliGenFinal ==
    /\ mpc = "c_genloop"
    /\ gk > Len(results)
    /\ IF Done(ctx) THEN
          /\ genRet' = [hasContent |-> hasContent, err |-> ctx]
          /\ mpc' = "c_finish"
       ELSE IF ShouldWrite(hasContent) THEN
          /\ mpc' = "c_output"
          /\ UNCHANGED genRet
       ELSE
          /\ genRet' = [hasContent |-> FALSE, err |-> "nil"]
          /\ mpc' = "c_finish"
    /\ UNCHANGED <<cfgVars, ctx, cliTaskVars, cliCoordVars, gk, hasContent,
                   pages, writes, closes, bufPuts, cliOutVars, cliUnused>>

\* pdf.Output(outFile): the write to the file may fail.
CliOutput ==
    /\ mpc = "c_output"
    /\ writes' = writes + 1
    /\ \E ok \in BOOLEAN :
          genRet' = IF ok THEN [hasContent |-> TRUE, err |-> "nil"]
                    ELSE [hasContent |-> TRUE, err |-> "write"]
    /\ mpc' = "c_finish"
    /\ UNCHANGED <<cfgVars, ctx, cliTaskVars, cliCoordVars, gk, hasContent,
                   pages, closes, bufPuts, cliOutVars, cliUnused>>

\* runApp's conversionErr after outFile.Close(): a close error takes the
\* place of a nil conversion error.
ConversionErr(g, closed) ==
    IF g.err # "nil" THEN g.err ELSE IF closed THEN "nil" ELSE "close"

\* Faulty variant of KeepsFile: the `if !hasContent` removal is missing.
KeepsFileWithoutContent(hc, e) == e = "nil"

\* runApp leaves the output file in place only when it reaches its last
\* return: conversionErr is nil and hasContent is true.  Every other return
\* after the conversion calls os.Remove.
KeepsFile(hc, e) == e = "nil" /\ hc

\* runApp after convertImagesToPDF has returned.
CliFinish ==
    /\ mpc = "c_finish"
    /\ \E closed \in BOOLEAN :
          LET e == ConversionErr(genRet, closed) IN
          /\ ret' = [hasContent |-> genRet.hasContent, err |-> e]
          /\ fileExists' = KeepsFile(genRet.hasContent, e)
    /\ mpc' = "c_exit"
    /\ UNCHANGED <<cfgVars, ctx, cliTaskVars, cliCoordVars, genVars, closes,
                   bufPuts, exitCode, cliUnused>>

\* main after runApp: os.Exit(130) for context.Canceled, os.Exit(1) for an
\* error other than ErrNoSupportedFiles, and the normal return otherwise.
ExitStatus(e) ==
    IF e = "nil" THEN 0
    ELSE IF IsCanceled(e) THEN 130
    ELSE IF e = "nosupported" THEN 0
    ELSE 1

CliExit ==
    /\ mpc = "c_exit"
    /\ exitCode' = ExitStatus(ret.err)
    /\ mpc' = "c_done"
    /\ UNCHANGED <<cfgVars, ctx, cliTaskVars, cliCoordVars, genVars, closes,
                   bufPuts, fileExists, ret, cliUnused>>

CliTask(p) ==
    \/ CliTaskAcquire(p)
    \/ CliTaskCancelWaiting(p)
    \/ CliTaskProcess(p)
    \/ CliTaskSendCancelled(p)

CliMain ==
    \/ CliRunApp
    \/ CliConvertEntry
    \/ CliLaunch
    \/ \E p \in Positions : CliCollectRecv(p)
    \/ CliCollectClosed
    \/ CliCollectCancelled
    \/ CliCollectEnd
    \/ CliDrainCheck
    \/ \E p \in Positions : CliDrainRecv(p)
    \/ CliDrainEnd
    \/ CliPreGenerate
    \/ CliGenStep
    \/ CliGenFinal
    \/ CliOutput
    \/ CliFinish
    \/ CliExit

CliNext ==
    \/ CliCancel
    \/ CliMain
    \/ \E p \in Positions : CliTask(p)
    \/ CliCloseChannel

CliSpec == CliInit /\ [][CliNext]_vars

(***************************************************************************)
(* The HTTP handler (package api).  HandlerSpec runs HandleConvert on one  *)
(* request; its call of ConvertToPDF runs the actions of the converter     *)
(* package above on the list the handler has built in sources.             *)
(***************************************************************************)

\* An uploaded file part: decodable, undecodable, or one whose
\* fileHeader.Open() fails.
UploadKinds == {"jpg", "bad", "openfail"}

\* What a URL of image_urls answers: no response at all, a status other
\* than 200, a content type that is no image, or a decodable image.
UrlKinds == {"neterr", "status", "html", "jpg", "webp"}

SeqsUpTo(S, n) == UNION { [1 .. m -> S] : m \in 0 .. n }

\* The parsed form: the config field, the image_urls field (absent, not a
\* JSON array of strings, or a list), the "images" file parts and the URLs.
Forms ==
    { fm \in [config : {"ok", "invalid"},
              urlsField : {"absent", "invalid", "list"},
              uploads : SeqsUpTo(UploadKinds, MaxSources),
              urls : SeqsUpTo(UrlKinds, MaxSources)] :
        /\ Len(fm.uploads) + Len(fm.urls) <= MaxSources
        /\ fm.urlsField # "list" => fm.urls = <<>> }

\* A URL goroutine that has not run yet.
NoFetch == [pc |-> "idle", err |-> "nil", body |-> "none",
            source |-> ImageSource(0, "nil")]

\* The worker counts of the requests: one worker, and the most.
HandlerWorkers == {1, MaxWorkers}

HandlerInit ==
    /\ form \in Forms
    /\ numWorkers \in HandlerWorkers
    /\ ctx \in {"none", "canceled", "deadline"}
    /\ hpc = "parse"
    /\ mpc = "idle"
    /\ sources = <<>>
    /\ ctxAtCall = "none"
    /\ fetch = [j \in 1 .. Len(form.urls) |-> NoFetch]
    /\ fetchedChan = <<>>
    /\ status = 0
    /\ PipelineIdle
    /\ CliIdle
    /\ ConfigIdle

\* The variables of the converter package other than its input and ctx.
convVars == <<validSources, li, results, taskVars, chan, chClosed,
              closerStarted, genVars, ret, ctxAtDecision, picCalled,
              genCalled, pdfFailed, obsVars, bufPuts>>

handlerUnused == <<numWorkers, fileExists, exitCode, ci, cfgIn, cfgOut>>

\* The request's context is cancelled (the client went away) or its
\* deadline passes while the handler itself is running.
HandlerCancel ==
    /\ ctx = "none"
    /\ hpc \in {"parse", "fetching"}
    /\ ctx' \in {"canceled", "deadline"}
    /\ UNCHANGED <<sources, mpc, ctxAtCall, closes, convVars, hpc, form,
                   fetch, fetchedChan, status, handlerUnused>>

\* Faulty variant of FetchImage: the body of a response that is no image
\* is left open.
FetchImageLeavesBodyOpen(u, idx, c) ==
    IF Done(c) \/ u = "neterr" THEN
        [err |-> "request", body |-> "none", source |-> ImageSource(idx, "nil")]
    ELSE IF u = "status" THEN
        [err |-> "status", body |-> "closed", source |-> ImageSource(idx, "nil")]
    ELSE IF u = "html" THEN
        [err |-> "unsupported", body |-> "open", source |-> ImageSource(idx, "nil")]
    ELSE
        [err |-> "nil", body |-> "open", source |-> ImageSource(idx, u)]

\* FetchImage(ctx, url, index): the request fails when the signal is set or
\* the server does not answer, and then there is no body; a status other
\* than 200 and a content type outside image/ close the body and return an
\* error; otherwise the open body is the returned descriptor's Reader.
FetchImage(u, idx, c) ==
    IF Done(c) \/ u = "neterr" THEN
        [err |-> "request", body |-> "none", source |-> ImageSource(idx, "nil")]
    ELSE IF u = "status" THEN
        [err |-> "status", body |-> "closed", source |-> ImageSource(idx, "nil")]
    ELSE IF u = "html" THEN
        [err |-> "unsupported", body |-> "closed", source |-> ImageSource(idx, "nil")]
    ELSE
        [err |-> "nil", body |-> "open", source |-> ImageSource(idx, u)]

\* indexedImageSource{err: ctx.Err()}: what a URL goroutine sends when its
\* select finds the signal set.
FetchSkipped(c) ==
    [err |-> c, body |-> "none", source |-> ImageSource(0, "nil")]

\* Faulty variant of UrlIndex: the index is the number of fetches that
\* completed earlier.
UrlIndexByCompletion(u, j, n) == u + n

\* The sourceIndex handed to the goroutine of the j-th URL (j from 1) after
\* u uploads; n fetches have completed.
UrlIndex(u, j, n) == u + j - 1

\* sort.Slice / sort.SliceStable by Index.
RECURSIVE SortByIndex(_)
SortByIndex(s) ==
    IF Len(s) <= 1 THEN s
    ELSE LET m == CHOOSE k \in DOMAIN s :
                     \A l \in DOMAIN s :
                        \/ s[k].Index < s[l].Index
                        \/ s[k].Index = s[l].Index /\ k <= l
             rest == [l \in 1 .. (Len(s) - 1) |->
                         IF l < m THEN s[l] ELSE s[l + 1]]
         IN <<s[m]>> \o SortByIndex(rest)

\* The uploads before the first one that fails to open.
RECURSIVE OpenedUploads(_)
OpenedUploads(up) ==
    IF up = <<>> \/ Head(up) = "openfail" THEN <<>>
    ELSE <<Head(up)>> \o OpenedUploads(Tail(up))

UploadSources(up) == [i \in 1 .. Len(up) |-> ImageSource(i - 1, up[i])]

\* The final check and the call: an empty list is answered 400, any other
\* list is sorted by index and handed to ConvertToPDF with the request's
\* context.
HandlerFinalCheck(list) ==
    IF Len(list) = 0 THEN
        /\ status' = 400
        /\ hpc' = "done"
        /\ UNCHANGED <<sources, mpc, ctxAtCall>>
    ELSE
        /\ sources' = SortByIndex(list)
        /\ mpc' = "entry"
        /\ ctxAtCall' = ctx
        /\ hpc' = "converting"
        /\ UNCHANGED status

\* HandleConvert from the parsed form to the start of the URL goroutines:
\* the config field, the uploaded parts, the image_urls field.
HandlerParse ==
    /\ hpc = "parse"
    /\ LET opened == UploadSources(OpenedUploads(form.uploads)) IN
       IF form.config = "invalid" THEN
           /\ status' = 400
           /\ hpc' = "done"
           /\ UNCHANGED <<sources, mpc, ctxAtCall, closes>>
       ELSE IF Len(opened) < Len(form.uploads) THEN
           /\ sources' = opened
           /\ status' = 500
           /\ hpc' = "done"
           /\ UNCHANGED <<mpc, ctxAtCall, closes>>
       ELSE IF form.urlsField = "invalid" THEN
           /\ sources' = opened
           /\ closes' = CloseAll(closes, {opened[k].Index : k \in DOMAIN opened})
           /\ status' = 400
           /\ hpc' = "done"
           /\ UNCHANGED <<mpc, ctxAtCall>>
       ELSE IF Len(form.urls) = 0 THEN
           /\ HandlerFinalCheck(opened)
           /\ UNCHANGED closes
       ELSE
           /\ sources' = opened
           /\ hpc' = "fetching"
           /\ UNCHANGED <<mpc, ctxAtCall, closes, status>>
    /\ UNCHANGED <<ctx, convVars, form, fetch, fetchedChan, handlerUnused>>

\* The goroutine of the j-th URL: its select skips the fetch when the
\* signal is set; a signal set after the select fails the request inside
\* FetchImage.  The outcome goes to fetchedChan.
HandlerFetch(j) ==
    /\ hpc = "fetching"
    /\ fetch[j].pc = "idle"
    /\ LET idx == UrlIndex(Len(sources), j, Len(fetchedChan))
           fetched == FetchImage(form.urls[j], idx, ctx)
       IN \E r \in (IF Done(ctx) THEN {FetchSkipped(ctx), fetched}
                    ELSE {fetched}) :
             /\ fetch' = [fetch EXCEPT ![j] =
                            [pc |-> "done", err |-> r.err, body |-> r.body,
                             source |-> r.source]]
             /\ fetchedChan' = Append(fetchedChan,
                                      [err |-> r.err, source |-> r.source,
                                       Index |-> r.source.Index])
    /\ UNCHANGED <<sources, mpc, ctxAtCall, closes, ctx, convVars, hpc, form,
                   status, handlerUnused>>

\* After wg.Wait(): fetchedChan is drained, the outcomes are sorted by
\* index, the failed ones are dropped; when every fetch failed and nothing was uploaded the answer is
\* 422, otherwise the fetched descriptors join the uploads.
HandlerGather ==
    /\ hpc = "fetching"
    /\ \A j \in DOMAIN fetch : fetch[j].pc = "done"
    /\ LET temp == SortByIndex(fetchedChan)
           ok(res) == res.err = "nil" /\ HasReader(res.source)
           failed(res) == res.err # "nil"
           fetchedSources == [k \in 1 .. Len(SelectSeq(temp, ok)) |->
                                 SelectSeq(temp, ok)[k].source]
           urlErrors == SelectSeq(temp, failed)
       IN IF /\ Len(urlErrors) > 0
             /\ Len(fetchedSources) = 0
             /\ Len(form.uploads) = 0
          THEN /\ status' = 422
               /\ hpc' = "done"
               /\ UNCHANGED <<sources, mpc, ctxAtCall>>
          ELSE HandlerFinalCheck(sources \o fetchedSources)
    /\ fetchedChan' = <<>>
    /\ UNCHANGED <<closes, ctx, convVars, form, fetch, handlerUnused>>

\* Faulty variant of ResponseStatus: ErrNoSupportedImages is not told from
\* the unexpected errors.
ResponseStatusAnyErrorIs500(r) ==
    IF r.err # "nil" THEN
        IF IsCancellation(r.err) THEN 504 ELSE 500
    ELSE IF ~r.hasContent THEN 422
    ELSE 200

\* The status HandleConvert answers with after ConvertToPDF has returned.
ResponseStatus(r) ==
    IF r.err # "nil" THEN
        IF IsCancellation(r.err) THEN 504
        ELSE IF r.err = "nosupported" THEN 422
        ELSE IF r.err = "unsupported" THEN 422
        ELSE 500
    ELSE IF ~r.hasContent THEN 422
    ELSE 200

HandlerRespond ==
    /\ hpc = "converting"
    /\ mpc = "done"
    /\ status' = ResponseStatus(ret)
    /\ hpc' = "done"
    /\ UNCHANGED <<sources, mpc, ctxAtCall, closes, ctx, convVars, form,
                   fetch, fetchedChan, handlerUnused>>

\* ConvertToPDF runs inside the handler.
HandlerConvert ==
    /\ hpc = "converting"
    /\ Next

HandlerNext ==
    \/ HandlerCancel
    \/ HandlerParse
    \/ \E j \in DOMAIN fetch : HandlerFetch(j)
    \/ HandlerGather
    \/ HandlerConvert
    \/ HandlerRespond

HandlerSpec == HandlerInit /\ [][HandlerNext]_vars

(***************************************************************************)
(* The handler's configuration and the file name of its response.          *)
(* ConfigSpec applies them to one config field; a file name is a sequence  *)
(* of characters.                                                          *)
(***************************************************************************)

\* The longest output file name of a config field.
MaxNameLen == 4

\* NewDefaultConfig's JPEGQuality.
DefaultJPEGQuality == 90

\* The largest JPEG quality HandleConvert accepts.
MaxJPEGQuality == 100

\* NewDefaultConfig's OutputFilename, and the handler's name of last resort.
ConvertedPdf ==
    <<"c", "o", "n", "v", "e", "r", "t", "e", "d", ".", "p", "d", "f">>

DotPdf == <<".", "p", "d", "f">>

\* The characters of the file names: the two the handler rewrites, and
\* those of the suffix in both cases.
NameChars == {"/", "\"", ".", "p", "d", "f", "F"}

Names == SeqsUpTo(NameChars, MaxNameLen)

QualityInputs == {0, 1, MaxJPEGQuality, MaxJPEGQuality + 1}

WorkerInputs == -1 .. MaxWorkers

\* A member of the config object: absent, or given with a value.
Absent(zero) == [given |-> FALSE, value |-> zero]
Given(v) == [given |-> TRUE, value |-> v]

\* The config field of a request: empty, no JSON, or a JSON object whose
\* members are named as openapi.yaml names them (output_filename,
\* jpeg_quality, num_workers) or as the fields of Config are named
\* (OutputFilename, JPEGQuality, NumWorkers).  ncpu is runtime.NumCPU().
\* File names are combined with every naming; the numbers with the short
\* names.
ConfigInputs ==
    LET objects(names, qualities, workers) ==
            [json : {"valid"}, keys : {"documented", "field"},
             name : {Absent(<<>>)} \cup {Given(n) : n \in names},
             quality : {Absent(0)} \cup {Given(q) : q \in qualities},
             workers : {Absent(0)} \cup {Given(w) : w \in workers},
             ncpu : 1 .. MaxWorkers]
    IN objects(Names, {}, {})
       \cup objects(SeqsUpTo(NameChars, 1), QualityInputs, WorkerInputs)
       \cup [json : {"empty", "invalid"}, keys : {"documented"},
             name : {Absent(<<>>)}, quality : {Absent(0)},
             workers : {Absent(0)}, ncpu : 1 .. MaxWorkers]

NewDefaultConfig(ncpu) ==
    [JPEGQuality |-> DefaultJPEGQuality, NumWorkers |-> ncpu,
     OutputFilename |-> ConvertedPdf]

\* json.Unmarshal(configStr, apiConfig): Config has no json tags, so a
\* member sets a field when its name is the field's name (in any case) and
\* is ignored otherwise; the fields without a member keep their values.
Unmarshal(cfg, in) ==
    IF in.keys = "field" THEN
        [JPEGQuality |-> IF in.quality.given THEN in.quality.value
                         ELSE cfg.JPEGQuality,
         NumWorkers |-> IF in.workers.given THEN in.workers.value
                        ELSE cfg.NumWorkers,
         OutputFilename |-> IF in.name.given THEN in.name.value
                            ELSE cfg.OutputFilename]
    ELSE cfg

\* Faulty variant of Validate: the worker count is not looked at.
ValidateQualityOnly(cfg, ncpu) ==
    [cfg EXCEPT !.JPEGQuality =
        IF @ < 1 \/ @ > MaxJPEGQuality
        THEN NewDefaultConfig(ncpu).JPEGQuality ELSE @]

\* The validation after json.Unmarshal: a quality outside 1..100 and a
\* worker count below 1 are replaced by NewDefaultConfig's.
Validate(cfg, ncpu) ==
    [cfg EXCEPT !.JPEGQuality =
                    IF @ < 1 \/ @ > MaxJPEGQuality
                    THEN NewDefaultConfig(ncpu).JPEGQuality ELSE @,
                !.NumWorkers =
                    IF @ <= 0 THEN NewDefaultConfig(ncpu).NumWorkers ELSE @]

\* The upper-case letters of the file names and their lower-case forms.
UpperLetters == <<"B", "E", "F", "G", "J", "N", "P", "W">>
LowerLetters == <<"b", "e", "f", "g", "j", "n", "p", "w">>

LowerChar(c) ==
    IF \E i \in DOMAIN UpperLetters : UpperLetters[i] = c
    THEN LowerLetters[CHOOSE i \in DOMAIN UpperLetters : UpperLetters[i] = c]
    ELSE c

\* strings.ToLower, on the characters of the file names.
ToLower(s) == [i \in DOMAIN s |-> LowerChar(s[i])]

\* strings.HasSuffix
HasSuffix(s, suf) ==
    /\ Len(s) >= Len(suf)
    /\ SubSeq(s, Len(s) - Len(suf) + 1, Len(s)) = suf

\* strings.ReplaceAll(s, "/", "_") and strings.ReplaceAll(s, "\"", "").
Sanitize(s) ==
    LET slashes == [i \in DOMAIN s |-> IF s[i] = "/" THEN "_" ELSE s[i]]
        NotQuote(c) == c # "\""
    IN SelectSeq(slashes, NotQuote)

\* The filename of the Content-Disposition header of the 200 response.
OutputFilename(cfg) ==
    LET name == IF cfg.OutputFilename = <<>> THEN ConvertedPdf
                ELSE cfg.OutputFilename
        clean == Sanitize(name)
    IN IF HasSuffix(ToLower(clean), DotPdf) THEN clean ELSE clean \o DotPdf

ConfigInit ==
    /\ cfgIn \in ConfigInputs
    /\ cfgOut = <<>>
    /\ hpc = "config"
    /\ sources = <<>>
    /\ numWorkers = 1
    /\ ctx = "none"
    /\ mpc = "idle"
    /\ ctxAtCall = "none"
    /\ form = <<>>
    /\ fetch = <<>>
    /\ fetchedChan = <<>>
    /\ status = 0
    /\ PipelineIdle
    /\ CliIdle

\* The configuration section of HandleConvert and, for the accepted
\* configs, the file name the success response would carry.
ConfigApply ==
    /\ hpc = "config"
    /\ cfgOut' =
          IF cfgIn.json = "invalid" THEN
              [rejected |-> TRUE, config |-> NewDefaultConfig(cfgIn.ncpu),
               filename |-> <<>>]
          ELSE LET apiConfig ==
                       IF cfgIn.json = "empty" THEN NewDefaultConfig(cfgIn.ncpu)
                       ELSE Validate(Unmarshal(NewDefaultConfig(cfgIn.ncpu),
                                               cfgIn), cfgIn.ncpu)
               IN [rejected |-> FALSE, config |-> apiConfig,
                   filename |-> OutputFilename(apiConfig)]
    /\ hpc' = "configured"
    /\ status' = IF cfgIn.json = "invalid" THEN 400 ELSE 0
    /\ UNCHANGED <<sources, numWorkers, ctx, mpc, ctxAtCall, closes, convVars,
                   form, fetch, fetchedChan, fileExists, exitCode, ci, cfgIn>>

ConfigNext == ConfigApply

ConfigSpec == ConfigInit /\ [][ConfigNext]_vars

(***************************************************************************)
(* One image from its upload to its page.  ImageSpec takes one uploaded    *)
(* part through the handler's choice of content type, processSingleImage   *)
(* and the assembler's iteration for its result.  The state is kept in     *)
(* cfgIn (the part) and cfgOut (what has been computed from it).           *)
(***************************************************************************)

\* The most pieces a file name is made of.
MaxPieces == 2

\* The largest pixel width and height of an image.
MaxDim == 2

\* The pieces of the file names: a letter, a dot, a path separator, the
\* supported extensions in both cases, another extension, an extension
\* without its dot and a truncated one.
NamePieces ==
    { <<"a">>, <<".">>, <<"/">>,
      <<".", "j", "p", "g">>, <<".", "J", "P", "G">>,
      <<".", "j", "p", "e", "g">>, <<".", "J", "P", "E", "G">>,
      <<".", "p", "n", "g">>, <<".", "P", "n", "g">>,
      <<".", "w", "e", "b", "p">>, <<".", "W", "E", "B", "P">>,
      <<".", "z", "i", "p">>, <<"j", "p", "g">>, <<".", "j", "p">> }

RECURSIVE PieceNames(_)
PieceNames(n) ==
    IF n = 0 THEN {<<>>}
    ELSE PieceNames(n - 1)
         \cup {s \o p : s \in PieceNames(n - 1), p \in NamePieces}

\* The Content-Type headers of an uploaded part and the content types of a
\* descriptor.
HeaderTypes ==
    {"", "application/octet-stream", "image/jpeg", "image/jpg", "image/png",
     "image/webp", "text/plain"}

\* What the bytes of the part really are; "garbage" decodes as nothing.
DataFormats == {"jpeg", "png", "webp", "garbage"}

\* An uploaded part: its file name, its Content-Type header, its bytes and
\* their pixel size, and whether imaging.Encode succeeds on the decoded
\* image.  Every name is combined with the headers that make the handler
\* look at the name; every header, format and size with the short names.
ImageInputs ==
    [name : PieceNames(MaxPieces),
     header : {"", "application/octet-stream", "image/png"},
     data : {"jpeg"}, w : {1}, h : {1}, encodes : {TRUE}]
    \cup
    [name : PieceNames(1), header : HeaderTypes, data : DataFormats,
     w : 1 .. MaxDim, h : 1 .. MaxDim, encodes : BOOLEAN]

\* filepath.Ext: the suffix from the last dot of the last path element.
RECURSIVE ExtFrom(_, _)
ExtFrom(s, i) ==
    IF i < 1 \/ s[i] = "/" THEN <<>>
    ELSE IF s[i] = "." THEN SubSeq(s, i, Len(s))
    ELSE ExtFrom(s, i - 1)

Ext(s) == ExtFrom(s, Len(s))

\* Faulty variant of GetContentTypeFromFilename: the extension is compared
\* as it is written.
GetContentTypeCaseSensitive(filename) ==
    LET ext == Ext(filename) IN
    IF ext \in {<<".", "j", "p", "g">>, <<".", "j", "p", "e", "g">>}
    THEN "image/jpeg"
    ELSE IF ext = <<".", "p", "n", "g">> THEN "image/png"
    ELSE IF ext = <<".", "w", "e", "b", "p">> THEN "image/webp"
    ELSE ""

GetContentTypeFromFilename(filename) ==
    LET ext == ToLower(Ext(filename)) IN
    IF ext \in {<<".", "j", "p", "g">>, <<".", "j", "p", "e", "g">>}
    THEN "image/jpeg"
    ELSE IF ext = <<".", "p", "n", "g">> THEN "image/png"
    ELSE IF ext = <<".", "w", "e", "b", "p">> THEN "image/webp"
    ELSE ""

\* HandleConvert's content type of an uploaded part: the header, or the
\* file name's when the header is missing or generic.
UploadContentType(part) ==
    IF part.header = "" \/ part.header = "application/octet-stream"
    THEN GetContentTypeFromFilename(part.name)
    ELSE part.header

\* A ProcessedImage with its dimensions and type: payload is the format of
\* the bytes behind Reader.
ImageResult(err, reader, w, h, type, payload) ==
    [Error |-> err, Reader |-> reader, Width |-> w, Height |-> h,
     ImageTypeForPDF |-> type, payload |-> payload]

\* ProcessedImage{Index, OriginalFilename, Error: err}
FailedResult(err) == ImageResult(err, "none", 0, 0, "", "none")

\* The switch on source.ContentType: the type named to gofpdf.
DeclaredType(ct) ==
    IF ct \in {"image/jpeg", "image/jpg"} THEN "JPG"
    ELSE IF ct = "image/png" THEN "PNG"
    ELSE IF ct = "image/webp" THEN "JPG"
    ELSE ""

\* processSingleImage with the formats and dimensions of its result.  With
\* the signal set it returns the cancellation error.  For a declared JPEG
\* or PNG it reads the stream and image.DecodeConfig, which accepts every
\* registered format, gives the dimensions; the bytes are passed on as they
\* are, under the declared type.  For a declared WebP, and for any other
\* content type, image.Decode decodes whatever registered format the bytes
\* are and imaging.Encode re-encodes the image: to PNG for PNG bytes under
\* an unknown content type, to JPEG otherwise.
NormalizeImage(ct, part, c) ==
    IF Done(c) THEN FailedResult(c)
    ELSE IF part.data = "garbage" THEN FailedResult("decode")
    ELSE IF ct \in {"image/jpeg", "image/jpg", "image/png"} THEN
        ImageResult("nil", "bytes", part.w, part.h, DeclaredType(ct), part.data)
    ELSE LET type == IF ct # "image/webp" /\ part.data = "png"
                     THEN "PNG" ELSE "JPG"
         IN IF ~part.encodes THEN FailedResult("encode")
            ELSE ImageResult("nil", "buf", part.w, part.h, type,
                             IF type = "PNG" THEN "png" ELSE "jpeg")

\* The format gofpdf parses under an image type.
FormatOfType(type) == IF type = "PNG" THEN "png" ELSE "jpeg"

\* What the PDF layer can do with a result: refuse the page, add the page
\* and refuse the image, or add both; it refuses bytes that are not of the
\* type it is told.
PageOutcomes(res) ==
    {"pagefail", "regfail"}
    \cup (IF res.payload = FormatOfType(res.ImageTypeForPDF)
          THEN {"ok"} ELSE {})

\* Faulty variant of PageFormat: the page is as wide as the image is high.
PageFormatLandscape(res) == [w |-> res.Height, h |-> res.Width]

\* gofpdf.SizeType{Wd: res.Width, Ht: res.Height}, in points.
PageFormat(res) == [w |-> res.Width, h |-> res.Height]

\* The assembler's iteration for one result: a result with an error or
\* without Reader is skipped; otherwise AddPageFormat, then
\* RegisterImageOptionsReader and ImageOptions.
AddImagePage(res, outcome) ==
    IF res.Error # "nil" \/ res.Reader = "none" \/ outcome = "pagefail"
    THEN <<>>
    ELSE <<[size |-> PageFormat(res), image |-> outcome = "ok"]>>

ImageInit ==
    /\ cfgIn \in ImageInputs
    /\ cfgOut = <<>>
    /\ hpc = "image"
    /\ ctx \in {"none", "canceled"}
    /\ sources = <<>>
    /\ numWorkers = 1
    /\ mpc = "idle"
    /\ ctxAtCall = "none"
    /\ form = <<>>
    /\ fetch = <<>>
    /\ fetchedChan = <<>>
    /\ status = 0
    /\ PipelineIdle
    /\ CliIdle

imageUnused == <<sources, numWorkers, ctx, mpc, ctxAtCall, closes, convVars,
                 form, fetch, fetchedChan, status, fileExists, exitCode, ci,
                 cfgIn>>

\* HandleConvert builds the descriptor of the part.
ImageDeclare ==
    /\ hpc = "image"
    /\ cfgOut' = [contentType |-> UploadContentType(cfgIn),
                  result |-> FailedResult("nil"), pages |-> <<>>]
    /\ hpc' = "declared"
    /\ UNCHANGED imageUnused

\* processSingleImage runs on the descriptor.
ImageNormalize ==
    /\ hpc = "declared"
    /\ cfgOut' = [cfgOut EXCEPT
                    !.result = NormalizeImage(cfgOut.contentType, cfgIn, ctx)]
    /\ hpc' = "normalized"
    /\ UNCHANGED imageUnused

\* The assembler's iteration for the result.
ImageAddPage ==
    /\ hpc = "normalized"
    /\ \E outcome \in PageOutcomes(cfgOut.result) :
          cfgOut' = [cfgOut EXCEPT
                        !.pages = AddImagePage(cfgOut.result, outcome)]
    /\ hpc' = "assembled"
    /\ UNCHANGED imageUnused

ImageNext ==
    \/ ImageDeclare
    \/ ImageNormalize
    \/ ImageAddPage

ImageSpec == ImageInit /\ [][ImageNext]_vars

(***************************************************************************)
(* Properties                                                              *)
(***************************************************************************)

InCoordinator == mpc \in {"launch", "collectInit", "collect", "reconcile"}

\* processImagesConcurrently has returned its results.
CoordinatorReturned == picCalled /\ ~InCoordinator

TasksTerminated == \A p \in Positions : tpc[p] \in {"idle", "done"}

\* The descriptors that normalize successfully when not cancelled.
Decodable(src) == src.kind \in {"jpg", "webp"}

ImagePages == {k \in DOMAIN pages : pages[k].image}

\* C1: processImagesConcurrently returns exactly N results, every position
\* filled, and the index of each of the N input descriptors is carried by
\* exactly one of them.
C1_EveryIndexOnce ==
    mpc = "pregen" =>
        /\ Len(results) = Len(validSources)
        /\ \A k \in DOMAIN results : results[k].named
        /\ \A j \in DOMAIN validSources :
               Cardinality({k \in DOMAIN results :
                               results[k].Index = validSources[j].Index}) = 1

\* C2: the pages of the document are in strictly increasing order of the
\* descriptors' index, whatever the order in which the item goroutines
\* published their results.
C2_PagesInIndexOrder ==
    \A a, b \in DOMAIN pages : a < b => pages[a].Index < pages[b].Index

\* C2 witness: two pages were added although the result of the higher index
\* was published first.
C2_Witness == mpc = "done" /\ Len(pages) = 2 /\ outOfOrder

\* C3: when ConvertToPDF has returned, every descriptor stream handed to it
\* has been closed exactly once.
C3_EveryStreamClosedOnce ==
    mpc = "done" =>
        \A k \in DOMAIN sources :
            HasReader(sources[k]) => closes[sources[k].Index] = 1

\* C4: once called, processImagesConcurrently eventually returns, and when it
\* has returned every item goroutine it launched has terminated.
C4_CoordinatorTerminates ==
    /\ picCalled ~> CoordinatorReturned
    /\ [](CoordinatorReturned => TasksTerminated)

\* C4 witness: the coordinator has returned from a run with one worker, two
\* goroutines and a cancellation that arrived after a Normalizer call.
C4_Witness ==
    /\ CoordinatorReturned
    /\ TasksTerminated
    /\ numWorkers = 1
    /\ Len(validSources) = 2
    /\ Done(ctx)
    /\ normCalls # {}
    /\ sem = 0

\* C5: with no cancellation (and no image rejected by the PDF layer), every
\* descriptor that normalizes successfully has become a page with its image,
\* whatever happened to the other descriptors.
C5_FailuresIsolated ==
    (mpc = "done" /\ ctx = "none" /\ ~pdfFailed) =>
        \A k \in DOMAIN sources :
            Decodable(sources[k]) =>
                \E q \in ImagePages : pages[q].Index = sources[k].Index

\* C6: the writer is reached at most once, only after the loop over the
\* results has ended and the last select on ctx.Done() took its default
\* branch; a return with a cancellation error or with has_content = false
\* has written nothing.
C6_NoPartialWrite ==
    /\ writes <= 1
    /\ writes > 0 => (gk > Len(results) /\ ctxAtDecision = "none"
                      /\ mpc \in {"decide", "done"})
    /\ (mpc = "done" /\ (IsCancellation(ret.err) \/ ~ret.hasContent))
           => writes = 0

\* C6 witness: a cancellation seen by the assembler after it had added a
\* page: has_content with a cancellation error, and nothing written.
C6_Witness ==
    /\ mpc = "done"
    /\ IsCancellation(ret.err)
    /\ ret.hasContent
    /\ ImagePages # {}
    /\ writes = 0

\* C7: called with the signal already set, ConvertToPDF returns
\* has_content = false with a cancellation error, adds no page and never
\* invokes processSingleImage.
C7_CancelledAtEntry ==
    (mpc = "done" /\ Done(ctxAtCall)) =>
        /\ ~ret.hasContent
        /\ IsCancellation(ret.err)
        /\ pages = <<>>
        /\ normCalls = {}

\* C7 witness: a call with the signal set and a descriptor that would have
\* normalized.
C7_Witness ==
    /\ mpc = "done"
    /\ Done(ctxAtCall)
    /\ \E k \in DOMAIN sources : Decodable(sources[k])

\* C8 as stated: when the signal is set at the last check ConvertToPDF makes
\* before it returns, it returns a cancellation error and has_content = false.
C8_CancelMeansNoContent ==
    (mpc = "done" /\ Done(ctxAtDecision)) =>
        (IsCancellation(ret.err) /\ ~ret.hasContent)

\* C8 amended: when the signal is set at the last check ConvertToPDF makes
\* before it returns, it returns a cancellation error and has written
\* nothing; has_content is false unless the assembler had already placed an
\* image on a page, and then it is true.
C8_CancelTakesPriority ==
    (mpc = "done" /\ Done(ctxAtDecision)) =>
        /\ IsCancellation(ret.err)
        /\ writes = 0
        /\ ret.hasContent <=> (genCalled /\ ImagePages # {})

\* C8 witness: the assembler saw the signal between two results, after it
\* had placed the first image.
C8_Witness ==
    /\ mpc = "done"
    /\ Done(ctxAtDecision)
    /\ ret.hasContent
    /\ Len(validSources) = 2
    /\ Cardinality(ImagePages) = 1

\* C9: the has_content flag ConvertToPDF returns is true exactly when an
\* image was placed on a page of the document.
C9_HasContentIffEmbedded ==
    mpc = "done" => (ret.hasContent <=> ImagePages # {})

\* C9 witness: a return without content although the document has a page
\* (the PDF layer rejected the image after the page was added).
C9_Witness ==
    /\ mpc = "done"
    /\ ~ret.hasContent
    /\ Len(pages) > 0

\* C10: with the signal not set and no descriptor that has a stream or a
\* URL (or no descriptor at all), ConvertToPDF returns has_content = false
\* with the no-supported-images error, calls neither the coordinator nor the
\* assembler and writes nothing.
C10_NoUsableSource ==
    (mpc = "done" /\ ctxAtCall = "none"
        /\ \A k \in DOMAIN sources : sources[k].kind = "nil") =>
        /\ ret = [hasContent |-> FALSE, err |-> "nosupported"]
        /\ ~picCalled
        /\ ~genCalled
        /\ writes = 0

\* C10 witness: a non-empty list of descriptors without stream and URL.
C10_Witness ==
    /\ mpc = "done"
    /\ ctxAtCall = "none"
    /\ Len(sources) > 0
    /\ \A k \in DOMAIN sources : sources[k].kind = "nil"

\* The descriptors whose normalization fails with an error that is not a
\* cancellation: undecodable bytes, or a URL without a stream.
FailsNormalization(src) == src.kind \in {"bad", "url"}

\* C11: when every descriptor fails normalization with a non-cancellation
\* error and the signal is never set, ConvertToPDF returns has_content =
\* false with the no-supported-images error and writes nothing.
C11_AllFailed ==
    (mpc = "done" /\ ctx = "none" /\ Len(sources) > 0
        /\ \A k \in DOMAIN sources : FailsNormalization(sources[k])) =>
        /\ ret = [hasContent |-> FALSE, err |-> "nosupported"]
        /\ writes = 0
        /\ pages = <<>>

\* C11 witness: two failing descriptors, both normalized, and the return.
C11_Witness ==
    /\ mpc = "done"
    /\ ctx = "none"
    /\ Len(sources) = 2
    /\ \A k \in DOMAIN sources : FailsNormalization(sources[k])
    /\ normCalls = {sources[k].Index : k \in DOMAIN sources}
    /\ genCalled

\* A result with an error has no byte stream.
ErrorMeansNoReader(img) == img.Error # "nil" => img.Reader = "none"

\* The results processSingleImage has returned to item goroutines that have
\* not yet reached the end of their last select.
NormalizerResults == {tres[p] : p \in {q \in Positions : tpc[q] = "send"}}

\* C12: every result returned by processSingleImage, and every result in
\* the array processImagesConcurrently returns, has a nil Reader when its
\* Error is not nil.
C12_ErrorMeansNoReader ==
    /\ \A img \in NormalizerResults : ErrorMeansNoReader(img)
    /\ mpc = "pregen" =>
          \A k \in DOMAIN results : ErrorMeansNoReader(results[k])

\* The part of C12 about processSingleImage alone.
C12_NormalizerPart ==
    \A img \in NormalizerResults : ErrorMeansNoReader(img)

\* The item goroutines holding a slot of semaphoreChan.
SlotHolders == {p \in Positions : tpc[p] \in {"held", "psi", "send"}}

\* The item goroutines inside processSingleImage.
Normalizing == {p \in Positions : tpc[p] = "psi"}

\* C13: at every moment at most numWorkers item goroutines hold a slot, so
\* at most numWorkers calls of processSingleImage are in progress.
C13_AtMostWorkerCount ==
    /\ Cardinality(SlotHolders) <= numWorkers
    /\ Cardinality(Normalizing) <= numWorkers
    /\ sem = Cardinality(SlotHolders)

\* C13 witness: one worker, two goroutines; one is inside the Normalizer
\* and the other is still waiting for the slot.
C13_Witness ==
    /\ numWorkers = 1
    /\ \E p, q \in Positions : tpc[p] = "psi" /\ tpc[q] = "wait"

\* The item goroutines that reach their first select with the signal already
\* set: they had not left it when the signal was set, and a slot was free
\* then, so they had not executed it either.
StartedCancelled == IF slotFreeAtCancel THEN waitingAtCancel ELSE {}

\* The goroutine of position p has finished, its descriptor's stream is
\* released and the result it published is the cancellation result.
EndedCancelled(p) ==
    tpc[p] = "done" =>
        /\ sent[p].named
        /\ sent[p].Index = validSources[p].Index
        /\ sent[p].Error = ctx
        /\ IsCancellation(sent[p].Error)
        /\ sent[p].Reader = "none"
        /\ HasReader(validSources[p]) => closes[validSources[p].Index] >= 1

\* C14 as stated: an item goroutine that starts with the signal already set
\* never takes a slot, releases its stream and records a cancellation
\* result.
C14_NeverAcquires ==
    \A p \in StartedCancelled : tpc[p] \notin {"held", "psi", "send"}
                                    /\ EndedCancelled(p)

\* C14, amended: an item goroutine that starts with the signal already set
\* never calls processSingleImage, releases its stream and publishes a
\* cancellation result; it may hold a slot, but only up to the second
\* select.
C14_NeverNormalizes ==
    \A p \in StartedCancelled : tpc[p] \notin {"psi", "send"}
                                    /\ EndedCancelled(p)

\* C14 witness: a goroutine that started with the signal set and a slot
\* free has finished and published its result.
C14_Witness ==
    \E p \in StartedCancelled :
        /\ tpc[p] = "done"
        /\ sent[p].named
        /\ HasReader(validSources[p])

\* The item goroutines for which the signal was set while no slot was free
\* and they had not taken one: those queued for a slot are among them.
QueuedCancelled == IF slotFreeAtCancel THEN {} ELSE waitingAtCancel

\* C15: an item goroutine for which the signal is set before it takes a
\* slot, while it is queued for one, never calls processSingleImage; it
\* closes its descriptor's stream and publishes a cancellation result.
C15_QueuedNeverNormalizes ==
    \A p \in QueuedCancelled :
        /\ tpc[p] \notin {"psi", "send"}
        /\ validSources[p].Index \notin normCalls
        /\ EndedCancelled(p)

\* C15 witness: every slot was taken when the signal was set, and a
\* goroutine that was queued then has published its cancellation result.
C15_Witness ==
    \E p \in QueuedCancelled :
        /\ tpc[p] = "done"
        /\ IsCancellation(sent[p].Error)
        /\ closes[validSources[p].Index] = 1

\* C16: a goroutine that took a slot gives it back exactly once, before it
\* finishes, on each of its three ways out, so the slots in use are exactly
\* those of the goroutines between acquire and return; when every goroutine
\* has finished, no slot is in use.
C16_SlotReleasedOnce ==
    /\ sem = Cardinality(SlotHolders)
    /\ \A p \in Positions : tpc[p] = "done" => p \notin SlotHolders
    /\ TasksTerminated => sem = 0

\* C16 witness: two goroutines took a slot and finished, one by the
\* post-acquire cancellation or the pre-send cancellation, and no slot is in
\* use.
C16_Witness ==
    /\ Cardinality({p \in Positions : tpc[p] = "done"}) = 2
    /\ Cardinality(normCalls) >= 1
    /\ \E p \in Positions : sent[p].named /\ IsCancellation(sent[p].Error)
    /\ waitingAtCancel = {}
    /\ sem = 0

\* C17: processedImageChan is closed only after every launched item
\* goroutine has finished; once closed it stays closed and nothing more is
\* sent on it; and the collection loop is left only with the channel closed
\* and drained.
C17_ClosedAfterAllTasks ==
    /\ [](chClosed => (closerStarted /\ wg = 0 /\ TasksTerminated))
    /\ [][chClosed => (chClosed' /\ sent' = sent
                          /\ Len(chan') <= Len(chan))]_vars
    /\ [][(mpc = "collect" /\ mpc' # "collect") =>
              (chClosed /\ chan = <<>>)]_vars

\* C17 witness: two goroutines published, the channel was closed and the
\* collection loop has ended.
C17_Witness ==
    /\ chClosed
    /\ mpc = "reconcile"
    /\ \A p \in Positions : tpc[p] = "done" /\ sent[p].named

\* C18: a call of processSingleImage that finds the signal set returns a
\* result whose Error is the cancellation error and whose Reader is nil,
\* has not read or decoded the stream, and has closed it.
C18_NormalizerCancelled ==
    \A p \in psiCancelled :
        /\ tpc[p] \in {"send", "done"}
        /\ tres[p].Index = validSources[p].Index
        /\ tres[p].Error = ctx
        /\ IsCancellation(tres[p].Error)
        /\ tres[p].Reader = "none"
        /\ validSources[p].Index \notin reads
        /\ HasReader(validSources[p]) => closes[validSources[p].Index] >= 1

\* C18 witness: processSingleImage was called on a decodable stream with
\* the signal set and has returned; the stream is closed once.
C18_Witness ==
    \E p \in psiCancelled :
        /\ tpc[p] = "send"
        /\ Decodable(validSources[p])
        /\ closes[validSources[p].Index] = 1

\* generatePDFFromProcessedImages returned from inside its loop, at the
\* select on ctx.Done() that starts the iteration of results[gk].
AssemblerCancelledInLoop ==
    /\ mpc \in {"decide", "done"}
    /\ genCalled
    /\ IsCancellation(genRet.err)
    /\ gk <= Len(results)

\* The results the loop had not consumed: the current one and the later.
Unconsumed == {results[k] : k \in gk .. Len(results)}

\* The assembler stopped: no unconsumed result has a page, and the returned
\* has_content is the accumulated one.
C19_StopsAndReturns ==
    AssemblerCancelledInLoop =>
        /\ \A img \in Unconsumed, k \in DOMAIN pages :
               pages[k].Index # img.Index
        /\ genRet.hasContent = hasContent
        /\ genRet.hasContent <=> ImagePages # {}
        /\ writes = 0

\* C19: an assembler that finds the signal set at the start of an
\* iteration adds no further page, returns the accumulated has_content with
\* the cancellation error, and has put back the pooled buffer of every
\* usable result it had not consumed, the current one and all later ones.
C19_UnconsumedReleased ==
    AssemblerCancelledInLoop =>
        /\ C19_StopsAndReturns
        /\ \A img \in Unconsumed :
               (img.Error = "nil" /\ Releases(img)) => bufPuts[img.Index] >= 1

\* The document was handed to the writer.
Serialized == writes > 0

\* A PDF-layer failure ends only the iteration it happens in: the document
\* is serialized after the loop has visited every result, and no image has
\* two pages.
C20_LaterImagesProcessed ==
    Serialized =>
        /\ gk > Len(results)
        /\ \A j, k \in DOMAIN pages : pages[j].Index = pages[k].Index => j = k

\* C20: a failure of the PDF layer while one image is added skips only that
\* image, and the serialized document has exactly one page for each
\* embedded image and no page for a skipped one.
C20_NoPageForSkippedImage ==
    Serialized =>
        /\ C20_LaterImagesProcessed
        /\ \A k \in DOMAIN pages : pages[k].image
        /\ Len(pages) = Cardinality(ImagePages)

\* No pooled buffer is read by the PDF layer after it went back to the
\* pool: the buffers the assembler has read are put back only when it
\* returns.
C21_NeverReadAfterPut == \A i \in deferred : bufPuts[i] = 0

\* C21: every pooled buffer is put back at most once and is never read
\* after it was put back, whether the signal is a cancel or a deadline.
C21_BufferPutAtMostOnce ==
    /\ \A i \in Indexes : bufPuts[i] <= 1
    /\ C21_NeverReadAfterPut

\* The first part of C21 when the signal is not a deadline expiry.
C21_ExplicitCancelPart ==
    ctx # "deadline" => \A i \in Indexes : bufPuts[i] <= 1

\* The results generatePDFFromProcessedImages has been handed and has not
\* yet visited.
HandedToAssembler ==
    IF mpc \in {"genloop"} THEN {results[k] : k \in gk .. Len(results)}
    ELSE {}

\* C22, converter package: an error-free result handed to the assembler
\* has a stream, and its pooled buffer has not gone back to the pool.
C22_StreamLiveInConverter ==
    \A img \in HandedToAssembler :
        (img.Error = "nil" /\ img.named /\ img.Index >= 0) =>
            /\ img.Reader # "none"
            /\ Releases(img) => bufPuts[img.Index] = 0

\* The results the command-line program's assembler has been handed and has
\* not yet visited.
HandedToCliAssembler ==
    IF mpc = "c_genloop" THEN {results[k] : k \in gk .. Len(results)}
    ELSE {}

\* C22, command-line program: an error-free result handed to the assembler
\* carries a file that has not been closed, or a buffer that has not gone
\* back to the pool.
C22_StreamLiveInCli ==
    \A img \in HandedToCliAssembler :
        (img.Error = "nil" /\ img.named) =>
            /\ img.Reader # "none"
            /\ img.Reader = "file" => closes[img.Index] = 0
            /\ img.Reader = "buf" => bufPuts[img.Index] = 0

\* C22: in the converter package and in the command-line program, every
\* error-free result handed to the assembler has a stream that is neither
\* closed nor back in the pool.
C22_StreamLiveUntilConsumed ==
    /\ C22_StreamLiveInConverter
    /\ C22_StreamLiveInCli

(***************************************************************************)
(* The HTTP handler and FetchImage (HandlerSpec)                           *)
(***************************************************************************)

\* The URL goroutines that have finished.
Fetched == {j \in DOMAIN fetch : fetch[j].pc = "done"}

\* HandleConvert has called ConvertToPDF.
ConverterCalled == hpc \in {"converting", "done"} /\ mpc # "idle"

\* C23: on every return path of FetchImage the response body is either
\* closed by FetchImage, and then an error is returned and no stream (a
\* status other than 200; a content type outside image/, reported as
\* ErrUnsupportedContentType), or open and the Reader of the returned
\* descriptor, and then no error is returned; a body is never closed and
\* returned, never open and not returned.
C23_BodyClosedXorReturned ==
    \A j \in Fetched :
        /\ fetch[j].body = "closed" =>
              fetch[j].err # "nil" /\ ~HasReader(fetch[j].source)
        /\ fetch[j].body = "open" =>
              fetch[j].err = "nil" /\ HasReader(fetch[j].source)
        /\ fetch[j].body = "none" => ~HasReader(fetch[j].source)
        /\ fetch[j].err = "nil" => fetch[j].body = "open"
        /\ fetch[j].body # "none" /\ form.urls[j] = "status" =>
              fetch[j].body = "closed"
        /\ fetch[j].body # "none" /\ form.urls[j] = "html" =>
              fetch[j].body = "closed" /\ fetch[j].err = "unsupported"

\* Two fetches have returned: one answered with a content type that is no
\* image and had its body closed, the other returned its open body.
C23_Witness ==
    \E j, k \in Fetched :
        /\ form.urls[j] = "html" /\ fetch[j].body = "closed"
        /\ fetch[k].body = "open" /\ HasReader(fetch[k].source)

\* C24: the i-th uploaded part (i from 0) gets index i and the j-th URL
\* (j from 0) index U + j, U the number of uploads, in whatever order the
\* fetches complete; the list passed to ConvertToPDF is ascending in index
\* and holds every upload and every fetched image at its index.
C24_IndexesByPosition ==
    LET U == Len(form.uploads) IN
    /\ \A j \in Fetched :
          fetch[j].err = "nil" =>
              fetch[j].source = ImageSource(U + j - 1, form.urls[j])
    /\ ConverterCalled =>
          /\ \A k \in 1 .. (Len(sources) - 1) :
                sources[k].Index < sources[k + 1].Index
          /\ \A i \in 1 .. U :
                \E k \in DOMAIN sources :
                    sources[k] = ImageSource(i - 1, form.uploads[i])
          /\ \A j \in Fetched :
                fetch[j].err = "nil" =>
                    \E k \in DOMAIN sources : sources[k] = fetch[j].source
          /\ \A k \in DOMAIN sources :
                \/ /\ sources[k].Index < U
                   /\ sources[k].kind = form.uploads[sources[k].Index + 1]
                \/ /\ sources[k].Index - U + 1 \in Fetched
                   /\ sources[k] = fetch[sources[k].Index - U + 1].source

\* Two fetches of different images have completed in the reverse of the
\* order of image_urls: the later URL's image is the first in fetchedChan.
C24_Witness ==
    /\ hpc = "fetching"
    /\ Len(fetchedChan) = 2
    /\ fetchedChan[1].err = "nil" /\ fetchedChan[2].err = "nil"
    /\ fetchedChan[1].source.kind # fetchedChan[2].source.kind
    /\ fetchedChan[1].Index > fetchedChan[2].Index

\* ConvertToPDF was called on an upload followed by a fetched image.
C24_CalledOnBoth ==
    /\ ConverterCalled
    /\ Len(form.uploads) = 1 /\ Len(sources) = 2
    /\ sources[2].kind = "webp"

\* C25: a request whose cancellation signal is set before HandleConvert has
\* decided its response is answered 504, never 200 and never another
\* error status.
C25_CancelledAnswers504 ==
    hpc = "done" /\ Done(ctx) => status = 504

\* A request of URLs only, every one of which would have answered with an
\* image, is answered 422: the signal was set before the fetches, every
\* fetch failed on it and ConvertToPDF was never called.
C25_CancelledFetchesAnswer422 ==
    /\ hpc = "done" /\ status = 422 /\ Done(ctx) /\ mpc = "idle"
    /\ form.config = "ok" /\ Len(form.uploads) = 0 /\ Len(form.urls) = 2
    /\ \A j \in DOMAIN form.urls : form.urls[j] \in {"jpg", "webp"}

\* The part that holds: a signal that ConvertToPDF was called with, or that
\* is set while it runs and that one of its checks observes, is answered
\* 504.
C25_ObservedByConverter ==
    hpc = "done" /\ ConverterCalled /\ Done(ctxAtDecision) => status = 504

\* A request is answered 200 although the signal was set during the
\* conversion, after ConvertToPDF's last check.
C25_LateCancelAnswers200 ==
    hpc = "done" /\ Done(ctx) /\ status = 200

\* The request has an input error: a config field that is no JSON, an
\* image_urls field that is no JSON array, or no upload and no URL.
InputError ==
    \/ form.config = "invalid"
    \/ form.urlsField = "invalid"
    \/ Len(form.uploads) = 0 /\ Len(form.urls) = 0

\* The uploaded parts HandleConvert has opened: none before the config
\* field is accepted, then every part before the first that fails to open.
OpenedIndexes ==
    IF hpc = "parse" \/ form.config = "invalid" THEN {}
    ELSE {i - 1 : i \in 1 .. Len(OpenedUploads(form.uploads))}

\* The answer to an input error: 400, no URL fetched, ConvertToPDF not
\* called, every opened upload closed.
InputErrorAnswer ==
    /\ status = 400
    /\ mpc = "idle"
    /\ Fetched = {}
    /\ \A i \in OpenedIndexes : closes[i] = 1

\* C26: on an input error HandleConvert responds 400, never fetches a URL,
\* never calls ConvertToPDF, and has closed every uploaded file stream it
\* had opened.
C26_InputErrorAnswers400 ==
    hpc = "done" /\ InputError => InputErrorAnswer

\* The part that holds: the same when every uploaded part opens.
C26_WhenEveryUploadOpens ==
    /\ hpc = "done"
    /\ InputError
    /\ \A i \in DOMAIN form.uploads : form.uploads[i] # "openfail"
    => InputErrorAnswer

\* An image_urls field that is no JSON array comes with two uploads, the
\* second of which fails to open: the answer is 500 and the first upload's
\* stream is left open.
C26_OpenedUploadLeftOpen ==
    /\ hpc = "done" /\ status = 500
    /\ form.urlsField = "invalid"
    /\ OpenedIndexes = {0} /\ closes[0] = 0

\* No image of the request became a page although the signal was never
\* set: every URL fetch failed and nothing was uploaded, or ConvertToPDF
\* was called and every image it was given was unprocessable.
NoPageWithoutCancellation ==
    /\ hpc = "done"
    /\ ~Done(ctx)
    /\ \/ /\ Len(form.uploads) = 0 /\ Len(form.urls) > 0
          /\ form.config = "ok"
          /\ \A j \in DOMAIN fetch : fetch[j].err # "nil"
       \/ ConverterCalled /\ pages = <<>>

\* C27: when no cancellation occurs and no image ends up as a page the
\* answer is 422; the answer is 200 only when ConvertToPDF was called and
\* returned has_content = true with no error.
C27_UnprocessableAnswers422 ==
    /\ NoPageWithoutCancellation => status = 422
    /\ status = 200 =>
          /\ hpc = "done" /\ ConverterCalled
          /\ ret = [hasContent |-> TRUE, err |-> "nil"]

\* Both cases have happened in one request or another: here an uploaded
\* image that does not decode and a URL that answers 404 ended in 422 after
\* ConvertToPDF returned ErrNoSupportedImages.
C27_Witness ==
    /\ NoPageWithoutCancellation
    /\ ConverterCalled
    /\ ret.err = "nosupported"
    /\ Len(form.urls) = 1 /\ form.urls[1] = "status"
    /\ status = 422

\* Every fetch of a URL-only request failed without any cancellation.
C27_EveryFetchFailed ==
    /\ NoPageWithoutCancellation
    /\ mpc = "idle" /\ Len(form.urls) = 2 /\ status = 422

\* A request was answered 200.
C27_Answered200 == status = 200 /\ Len(pages) = 2

(***************************************************************************)
(* The handler's configuration (ConfigSpec)                                *)
(***************************************************************************)

\* HandleConvert accepted the config field.
Configured == hpc = "configured" /\ ~cfgOut.rejected

\* The config field is a JSON object that gives a non-empty file name.
GivesName ==
    cfgIn.json = "valid" /\ cfgIn.name.given /\ cfgIn.name.value # <<>>

\* A given name with '/' replaced by '_', the double quotes removed and
\* ".pdf" appended when the name does not end in it.
GivenNameCleaned ==
    LET clean == Sanitize(cfgIn.name.value) IN
    IF HasSuffix(ToLower(clean), DotPdf) THEN clean ELSE clean \o DotPdf

\* C28: the file name of the 200 response's Content-Disposition header is
\* the output_filename of the request's config JSON, with '/' replaced by
\* '_', double quotes removed and ".pdf" appended when missing; it is
\* converted.pdf only when the config gives none.
C28_FilenameFromConfig ==
    Configured =>
        /\ GivesName => cfgOut.filename = GivenNameCleaned
        /\ cfgOut.filename = ConvertedPdf => ~GivesName

\* The part that holds: the same for a config whose member is named as the
\* field of Config is, OutputFilename.
C28_FieldNameKey ==
    Configured /\ cfgIn.keys = "field" =>
        /\ GivesName => cfgOut.filename = GivenNameCleaned
        /\ cfgOut.filename = ConvertedPdf => ~GivesName

\* A config object gives the file name /.pd under the documented member
\* name, output_filename, and the response's file name is converted.pdf.
C28_DocumentedKeyIgnored ==
    /\ Configured /\ cfgIn.keys = "documented"
    /\ cfgIn.name = Given(<<"/", ".", "p", "d">>)
    /\ cfgOut.filename = ConvertedPdf

\* Under the field's name the same file name is answered as _.pd.pdf.
C28_FieldNameKeyCleaned ==
    /\ Configured /\ cfgIn.keys = "field"
    /\ cfgIn.name = Given(<<"/", ".", "p", "d">>)
    /\ cfgOut.filename = <<"_", ".", "p", "d">> \o DotPdf

\* C29: for every config field the handler accepts (empty, or a JSON object
\* whose values may be out of range) the Configuration passed to
\* ConvertToPDF has 1 <= jpeg_quality <= 100 and worker_count >= 1, and a
\* value given out of range has been replaced by the default: quality 90,
\* the available parallelism.
C29_ConfigInRange ==
    Configured =>
        /\ cfgOut.config.JPEGQuality \in 1 .. MaxJPEGQuality
        /\ cfgOut.config.NumWorkers >= 1
        /\ cfgIn.quality.given /\ cfgIn.quality.value \notin 1 .. MaxJPEGQuality
              => cfgOut.config.JPEGQuality = DefaultJPEGQuality
        /\ cfgIn.workers.given /\ cfgIn.workers.value < 1
              => cfgOut.config.NumWorkers = cfgIn.ncpu

\* A config object gave quality 101 and 0 workers under the names of the
\* fields, and both were replaced.
C29_Witness ==
    /\ Configured /\ cfgIn.keys = "field"
    /\ cfgIn.quality = Given(MaxJPEGQuality + 1)
    /\ cfgIn.workers = Given(0)
    /\ cfgOut.config.JPEGQuality = DefaultJPEGQuality
    /\ cfgOut.config.NumWorkers = cfgIn.ncpu

\* Under the names of the fields a value in range reaches ConvertToPDF.
C29_InRangeKept ==
    /\ Configured /\ cfgIn.keys = "field"
    /\ cfgIn.quality = Given(1) /\ cfgOut.config.JPEGQuality = 1

(***************************************************************************)
(* The command-line program's output file (CliSpec)                        *)
(***************************************************************************)

\* runApp has returned.
AfterRunApp == mpc \in {"c_exit", "c_done"}

\* convertImagesToPDF returned has_content = true and no error.
ConvertedWithContent == genRet = [hasContent |-> TRUE, err |-> "nil"]

C30_RemovedAfterCloseError ==
    AfterRunApp /\ ConvertedWithContent /\ ret.err = "close" /\ ~fileExists

\* os.Create failed on a file that was there before the run, which is still
\* there.
C30_CreateFailedFileStays ==
    AfterRunApp /\ ret.err = "create" /\ fileExists

\* A run ended with its file in place.
C30_FileKept == AfterRunApp /\ fileExists /\ ret.err = "nil" /\ Len(pages) = 2

\* The process has ended.
CliEnded == mpc = "c_done"

\* The run produced no PDF: runApp returned an error, or the conversion
\* embedded no image.
NoPdfProduced == ret.err # "nil" \/ ~ret.hasContent

\* C31: whenever the CLI ends without producing a PDF (no supported files,
\* a zero-content result, a conversion error, cancellation) the process
\* exits with a non-zero status.
C31_NoPdfExitsNonZero ==
    CliEnded /\ NoPdfProduced => exitCode # 0

\* The part that holds: cancellation exits with 130, and an error other
\* than ErrNoSupportedFiles with 1.
C31_ErrorsExitNonZero ==
    CliEnded =>
        /\ IsCanceled(ret.err) => exitCode = 130
        /\ ret.err \notin {"nil", "canceled", "nosupported"} => exitCode = 1

\* A directory without supported files: runApp returned
\* ErrNoSupportedFiles, removed the output file, and the status is 0.
C31_NoSupportedFilesExitsZero ==
    /\ CliEnded /\ Len(sources) = 0
    /\ ret.err = "nosupported" /\ ~fileExists /\ exitCode = 0

\* Every image failed: runApp returned nil after removing the empty file,
\* and the status is 0.
C31_ZeroContentExitsZero ==
    /\ CliEnded /\ Len(sources) > 0
    /\ ret = [hasContent |-> FALSE, err |-> "nil"]
    /\ ~fileExists /\ exitCode = 0

(***************************************************************************)
(* One image from its upload to its page (ImageSpec)                       *)
(***************************************************************************)

\* The part's image was normalized without error.
Normalized ==
    hpc \in {"normalized", "assembled"} /\ cfgOut.result.Error = "nil"

\* C32: every page the assembler adds has the width and height, in points,
\* that processSingleImage reported, which are the pixel width and height
\* of the image; one W x H image gives at most one page, and exactly one,
\* of size W x H, when the PDF layer accepts it.
C32_PageSizeIsImageSize ==
    /\ Normalized =>
          /\ cfgOut.result.Width = cfgIn.w
          /\ cfgOut.result.Height = cfgIn.h
    /\ hpc = "assembled" =>
          /\ Len(cfgOut.pages) <= 1
          /\ \A k \in DOMAIN cfgOut.pages :
                /\ cfgOut.pages[k].size = [w |-> cfgIn.w, h |-> cfgIn.h]
                /\ cfgOut.result.Error = "nil"

\* A PNG of 1 x 2 pixels has become the image of one page of 1 x 2 points.
C32_Witness ==
    /\ hpc = "assembled"
    /\ cfgIn.data = "png" /\ cfgIn.w = 1 /\ cfgIn.h = 2
    /\ cfgOut.contentType = "image/png"
    /\ cfgOut.pages = <<[size |-> [w |-> 1, h |-> 2], image |-> TRUE]>>

\* The handler asked the file name for the content type.
TypeFromName ==
    hpc # "image" /\ cfgIn.header \in {"", "application/octet-stream"}

\* The content type of a name by the end of its lower-case form.
TypeBySuffix(name) ==
    LET low == ToLower(name) IN
    IF \/ HasSuffix(low, <<".", "j", "p", "g">>)
       \/ HasSuffix(low, <<".", "j", "p", "e", "g">>) THEN "image/jpeg"
    ELSE IF HasSuffix(low, <<".", "p", "n", "g">>) THEN "image/png"
    ELSE IF HasSuffix(low, <<".", "w", "e", "b", "p">>) THEN "image/webp"
    ELSE ""

\* C33: GetContentTypeFromFilename maps a name by its extension, in any
\* case: .jpg and .jpeg to image/jpeg, .png to image/png, .webp to
\* image/webp; every other name (another extension, no extension, a
\* dot-file such as .zip, a dot in a directory name only) is mapped to the
\* empty string.
C33_TypeByExtension ==
    TypeFromName => cfgOut.contentType = TypeBySuffix(cfgIn.name)

\* The name a.JPEG was mapped to image/jpeg.
C33_Witness ==
    /\ TypeFromName
    /\ cfgIn.name = <<"a", ".", "J", "P", "E", "G">>
    /\ cfgOut.contentType = "image/jpeg"

\* A name that is nothing but a supported extension has that extension:
\* .png was mapped to image/png.
C33_DotFileMapped ==
    /\ TypeFromName
    /\ cfgIn.name = <<".", "p", "n", "g">>
    /\ cfgOut.contentType = "image/png"

\* The dot-file .zip, the name jpg and the name .jpg/a were mapped to "".
C33_OtherNamesUnmapped ==
    /\ TypeFromName
    /\ cfgIn.name \in {<<".", "z", "i", "p">>, <<"j", "p", "g">>,
                       <<".", "j", "p", "g", "/", "a">>}
    /\ cfgOut.contentType = ""

\* C37: for every declared content type and every real format of the data,
\* a successful result of processSingleImage has pdf_encoding JPG or PNG,
\* the payload bytes are of the format the encoding names, and a WebP input
\* is re-encoded as JPEG.
C37_EncodingNamesPayload ==
    Normalized =>
        /\ cfgOut.result.ImageTypeForPDF \in {"JPG", "PNG"}
        /\ cfgOut.result.payload = FormatOfType(cfgOut.result.ImageTypeForPDF)
        /\ cfgIn.data = "webp" =>
              cfgOut.result.payload = "jpeg" /\ cfgOut.result.Reader = "buf"

\* The content type agrees with the data, or is none of JPEG and PNG.
DeclaredAsItIs ==
    \/ cfgOut.contentType \in {"image/jpeg", "image/jpg"} /\ cfgIn.data = "jpeg"
    \/ cfgOut.contentType = "image/png" /\ cfgIn.data = "png"
    \/ cfgOut.contentType \notin {"image/jpeg", "image/jpg", "image/png"}

\* The part that holds: the same for the images whose content type agrees
\* with their data, for a declared WebP and for the unknown content types.
C37_WhenDeclaredAsItIs ==
    Normalized /\ DeclaredAsItIs =>
        /\ cfgOut.result.ImageTypeForPDF \in {"JPG", "PNG"}
        /\ cfgOut.result.payload = FormatOfType(cfgOut.result.ImageTypeForPDF)
        /\ cfgIn.data = "webp" =>
              cfgOut.result.payload = "jpeg" /\ cfgOut.result.Reader = "buf"

\* PNG bytes uploaded as image/jpeg are a successful result of type JPG
\* whose payload is the PNG bytes.
C37_PngNamedJpg ==
    /\ Normalized
    /\ cfgIn.header = "image/jpeg" /\ cfgIn.data = "png"
    /\ cfgOut.result.ImageTypeForPDF = "JPG" /\ cfgOut.result.payload = "png"

\* WebP bytes in a file named .png, uploaded without a content type, are
\* passed on as they are under the type PNG.
C37_WebpNotReencoded ==
    /\ Normalized
    /\ cfgIn.header = "" /\ cfgIn.name = <<".", "p", "n", "g">>
    /\ cfgIn.data = "webp"
    /\ cfgOut.result.payload = "webp" /\ cfgOut.result.Reader = "bytes"

(***************************************************************************)
(* The coordinator's streams, channel and final pass (Spec)                *)
(***************************************************************************)

\* processImagesConcurrently is running or has just returned: nothing
\* outside it has touched the streams of validSources yet.
WithinCoordinator == InCoordinator \/ mpc = "pregen"

\* The launch loop has ended.
LaunchEnded == mpc \in {"collectInit", "collect", "reconcile", "pregen"}

\* The item goroutine of position p is past the one place of its path that
\* closes the stream: its cancellation branch, or processSingleImage.
TaskClosedStream(p) == tpc[p] \in {"send", "done"}

\* C34: within processImagesConcurrently each descriptor's stream is closed
\* at most once, and exactly once when the function returns, by exactly one
\* of the launch loop, the item goroutine and processSingleImage: the
\* launch loop closes the streams of the positions it launches no goroutine
\* for, a goroutine closes only its own descriptor's stream, once, and no
\* goroutine is launched for a descriptor whose stream the launch loop
\* closed.
C34_StreamClosedOnceInCoordinator ==
    WithinCoordinator =>
        \A p \in DOMAIN validSources :
            LET n == closes[validSources[p].Index] IN
            /\ ~HasReader(validSources[p]) => n = 0
            /\ HasReader(validSources[p]) =>
                  /\ n <= 1
                  /\ mpc = "pregen" => n = 1
                  /\ tpc[p] # "idle" => (n = 1 <=> TaskClosedStream(p))
                  /\ tpc[p] = "idle" => (n = 1 <=> LaunchEnded)
            /\ LaunchEnded => (tpc[p] = "idle" <=> p >= li)

\* processImagesConcurrently has returned; the stream of the first
\* descriptor was closed by processSingleImage, that of the second by the
\* launch loop, which found the signal set and launched no goroutine for it.
C34_Witness ==
    /\ mpc = "pregen"
    /\ Len(validSources) = 2
    /\ HasReader(validSources[1]) /\ HasReader(validSources[2])
    /\ validSources[1].Index \in reads
    /\ tpc[2] = "idle"
    /\ closes[validSources[1].Index] = 1
    /\ closes[validSources[2].Index] = 1

\* A goroutine closed its stream in the cancellation branch of its first
\* select, another after it had acquired a slot.
C34_ClosedByGoroutine ==
    /\ mpc = "pregen"
    /\ Len(validSources) = 2
    /\ tpc[1] = "done" /\ tpc[2] = "done"
    /\ normCalls = {}
    /\ \E p \in {1, 2} : p \in waitingAtCancel /\ sent[p].Error = ctx
    /\ closes[validSources[1].Index] = 1
    /\ closes[validSources[2].Index] = 1

\* The item goroutine of position p was started and has not returned.
TaskRunning(p) == tpc[p] \in {"wait", "held", "psi", "send"}

\* The item goroutine of position p returns in this step.
TaskReturns(p) == tpc[p] # "done" /\ tpc'[p] = "done"

\* One step of the program seen from the result channel.
C35_PublishStep ==
    /\ \A p \in Positions :
          /\ TaskRunning(p) => SendReady(chan, validSources)
          /\ TaskReturns(p) =>
                /\ TaskRunning(p)
                /\ chan' = Append(chan, sent'[p])
                /\ sent'[p].Index = validSources[p].Index
          /\ tpc[p] = "done" => tpc'[p] = "done" /\ sent'[p] = sent[p]
          /\ tpc'[p] = tpc[p] => sent'[p] = sent[p]
    /\ Len(chan') > Len(chan) => \E p \in Positions : TaskReturns(p)

\* C35: every started item goroutine sends exactly one result on
\* processedImageChan, in the step in which it returns, whichever of its
\* paths it takes (cancelled before a slot, cancelled holding a slot,
\* completed, cancelled at the last select), nothing else is ever sent, and
\* while a goroutine is running the channel has room for its result.
C35_OnePublishNeverBlocked == [][C35_PublishStep]_vars

\* Both goroutines have returned and the channel, which nobody has received
\* from yet, is full: the first sent a completed image, the second found the
\* signal set at its last select.
C35_Witness ==
    /\ mpc \in {"collectInit", "collect"}
    /\ Len(validSources) = 2
    /\ tpc[1] = "done" /\ tpc[2] = "done"
    /\ Len(chan) = 2
    /\ \E p \in {1, 2} : sent[p].Error = "nil"
    /\ \E p \in {1, 2} :
          /\ validSources[p].Index \in normCalls
          /\ p \notin psiCancelled
          /\ Decodable(validSources[p])
          /\ sent[p].Error \in {"canceled", "deadline"}

\* The two cancellation branches before processSingleImage have sent.
C35_CancelledBeforeNormalize ==
    /\ Len(validSources) = 2
    /\ tpc[1] = "done" /\ tpc[2] = "done"
    /\ Len(chan) = 2
    /\ normCalls = {}
    /\ \E p \in {1, 2} : p \in waitingAtCancel
    /\ \E p \in {1, 2} : p \notin waitingAtCancel

\* The final pass of processImagesConcurrently runs in this step and finds
\* ctx.Err() set.
FinalPassCancelled == mpc = "reconcile" /\ mpc' = "pregen" /\ Done(ctx)

\* results[k] is still the placeholder of the collection loop.
Unfilled(img) == img.Index = -1 \/ ~img.named

\* What the final pass has to make of position k.
ReconciledAsClaimed(k) ==
    /\ results'[k].Error # "nil"
    /\ Unfilled(results[k]) =>
          results'[k] = CancelledImage(validSources[k], ctx)
    /\ (~Unfilled(results[k]) /\ results[k].Error = "nil") =>
          /\ results'[k] = [results[k] EXCEPT !.Error = ctx, !.Reader = "none"]
          /\ bufPuts'[results[k].Index] =
                IF Releases(results[k]) THEN 1 ELSE 0

\* C36: when the final pass of processImagesConcurrently finds the signal
\* set, no returned result is successful: every unfilled position becomes
\* the cancellation result of its descriptor (index and name), and every
\* successful result becomes a cancellation result whose Reader is released
\* once and set to nil.
C36_FinalPassLeavesNoSuccess ==
    [][FinalPassCancelled => \A k \in DOMAIN results : ReconciledAsClaimed(k)]_vars

\* The indexes of the descriptors are 0 .. N-1 in order.
DenseIndexes == \A j \in DOMAIN validSources : validSources[j].Index = j - 1

\* The part that holds: the same, for descriptors indexed 0 .. N-1.
C36_WhenIndexesDense ==
    [][(FinalPassCancelled /\ DenseIndexes) =>
          \A k \in DOMAIN results : ReconciledAsClaimed(k)]_vars

\* The final pass found the signal set and a successful result with a
\* pooled buffer, which it turned into a cancellation result.
C36_SuccessTurnedCancelled ==
    /\ mpc = "pregen"
    /\ Done(ctx)
    /\ DenseIndexes
    /\ \E k \in DOMAIN results :
          /\ sent[k].Error = "nil" /\ Releases(sent[k])
          /\ results[k] = [sent[k] EXCEPT !.Error = ctx, !.Reader = "none"]
          /\ bufPuts[results[k].Index] = 1

\* A descriptor with index 1 alone: its result was dropped as out of
\* bounds, the final pass skipped it, and the placeholder is returned.
C36_PlaceholderReturned ==
    /\ mpc = "pregen"
    /\ Done(ctx)
    /\ Len(results) = 1
    /\ results[1].Index = -1
    /\ results[1].Error = "nil"

(***************************************************************************)
(* The outcome of ConvertToPDF (Spec)                                      *)
(***************************************************************************)

\* C38: ConvertToPDF returns a nil error only together with
\* hasContent = true; (false, nil) is returned for no input and no
\* cancellation timing.
C38_NilErrorMeansContent ==
    mpc = "done" => (ret.err = "nil" => ret.hasContent)

\* ConvertToPDF returned (true, nil) although one of two descriptors failed.
C38_Witness ==
    /\ mpc = "done"
    /\ ret.err = "nil"
    /\ ret.hasContent
    /\ Len(results) = 2
    /\ \E k \in DOMAIN results : results[k].Error # "nil"

\* The assembler returned (false, nil) for a non-empty list and ConvertToPDF
\* made an error of it.
C38_NothingAddedIsAnError ==
    /\ mpc = "done"
    /\ genCalled
    /\ genRet = [hasContent |-> FALSE, err |-> "nil"]
    /\ ret.err # "nil"
    /\ ~ret.hasContent

(***************************************************************************)
(* Who touches results (Spec)                                              *)
(***************************************************************************)

\* A step of an item goroutine or of the completion goroutine.
GoroutineStep == tpc' # tpc \/ chClosed' # chClosed

\* C39: inside processImagesConcurrently results is touched by the calling
\* thread only: every step that changes a position of results is a step of
\* the launch loop, of the placeholder and collection loops or of the final
\* pass, never a step of an item goroutine or of the completion goroutine,
\* which move through the semaphore and the channel; the calling thread is
\* at one place at a time, so no position is accessed by two threads at
\* once.
C39_ResultsOwnedByCaller ==
    [][(InCoordinator /\ results' # results) =>
          /\ ~GoroutineStep
          /\ \/ mpc = "launch" /\ mpc' = "collectInit"
             \/ mpc = "collectInit" /\ mpc' = "collect"
             \/ mpc = "collect" /\ mpc' = "collect" /\ chan' = Tail(chan)
             \/ mpc = "reconcile" /\ mpc' = "pregen"]_vars

\* The collection loop has stored the result of one goroutine while the
\* other goroutine is still running.
C39_Witness ==
    /\ mpc = "collect"
    /\ Len(validSources) = 2
    /\ \E p \in {1, 2} : TaskRunning(p)
    /\ \E k \in DOMAIN results :
          results[k].named /\ results[k].Index = k - 1

\* The launch loop has written the cancellation result of the second
\* position while the goroutine of the first is still running.
C39_LaunchLoopWrites ==
    /\ mpc = "collectInit"
    /\ Len(validSources) = 2
    /\ TaskRunning(1)
    /\ tpc[2] = "idle"
    /\ results[2].named /\ results[2].Error = ctx

====
